---- MODULE Spec2Model ----
(***************************************************************************)
(* State-machine model of the restoration-testing core of jehmal/dgmo:     *)
(*   - ExtractionEngine.test_extraction (extraction_engine.py)             *)
(*   - ProgressTracker (progress_tracker.py)                               *)
(*   - ComparisonEngine.content_comparison (comparison_engine.py)          *)
(* The specifications share the module: SpecExtraction runs one            *)
(* test_extraction call of one engine against an interrupting signal       *)
(* handler, SpecEngines runs two engine instances creating and cleaning    *)
(* up temp directories from two threads, SpecTracker runs threads calling  *)
(* into a tree of trackers, SpecTrackerSeq, SpecTrackerChain and           *)
(* SpecTrackerLong run one thread with a wider range of arguments, a       *)
(* deeper tree and more calls, and SpecComparison runs one                 *)
(* content_comparison call, its worker tasks completing in any order.      *)
(* SpecPool runs the thread pool of content_comparison task by task,       *)
(* SpecExtractionLong runs test_extraction on archives of many members,    *)
(* SpecExtractionAgain runs a second call on the same engine, SpecTree     *)
(* builds trees of trackers with add_sub_operation, and SpecMonitor runs   *)
(* start_monitoring and stop_monitoring of MultiProgressTracker from two   *)
(* threads against the monitor loop.                                       *)
(***************************************************************************)
EXTENDS Integers, Sequences, FiniteSets, TLC

VARIABLES
    \* ---- extraction engine -------------------------------------------
    archive,          \* the inputs of the call: the archive file, the callback
    pc,               \* position of test_extraction
    interrupted,      \* ExtractionEngine._interrupted
    temp_dirs,        \* ExtractionEngine.temp_dirs
    dirs_created,     \* directories created on disk by the call
    format_detected,  \* local of test_extraction ("unset" until assigned)
    extraction_path,  \* local of test_extraction ("unset" until assigned)
    metadata,         \* the ExtractionMetadata of the call
    idx,              \* members already iterated by the extraction loop
    hashed,           \* chunks already fed to the sha256
    events,           \* calls made to progress_callback, in order
    links,            \* symlinks on disk: location -> target location
    writes,           \* locations on disk the extraction wrote to
    result,           \* <<>> until test_extraction returns, then <<ExtractionResult>>
    outcomes,         \* history: what the loop did with each member, in order
    observed,         \* history: _check_interrupted raised in this call
    \* ---- progress tracker --------------------------------------------
    trackers,         \* tracker id -> fields of the ProgressTracker
    locks,            \* tracker id -> its RLock: owner and recursion count
    threads,          \* thread id -> the call it is executing
    clock,            \* time.time()
    calls,            \* history: calls started so far
    \* ---- comparison engine -------------------------------------------
    source_files,     \* relative path -> the file collected under the source root
    target_files,     \* relative path -> the file collected under the target root
    comparison_mode,  \* the mode of the call
    roots_exist,      \* <<the source root exists, the target root exists>>
    cpc,              \* position of content_comparison
    future_to_path,   \* paths of the submitted tasks not yet yielded by as_completed
    comparison,       \* the ComparisonResult of the call
    completion_order, \* history: paths in the order as_completed yielded them
    counted_as,       \* history: path -> the counter its pair was added to
    max_workers,      \* ComparisonEngine.max_workers
    tasks,            \* the work items of the executor, in the order of their submission
    \* ---- engine instances and their temp directories ------------------
    engines,          \* engine id -> the fields of the ExtractionEngine
    handler,          \* the process-wide handler of SIGINT and SIGTERM
    disk,             \* the temp directories that exist on disk
    workers,          \* thread id -> the engine call it is executing
    created,          \* history: directory -> the engine whose mkdtemp made it
    attempted,        \* history: directories a cleanup tried to remove
    \* ---- further calls on one engine ----------------------------------
    earlier,          \* history: the test_extraction calls the engine has returned from
    \* ---- tracker objects and their tree -------------------------------
    objects,          \* the ProgressTracker objects: _parent_tracker and _sub_trackers
    bubbled,          \* history: the last _notify_update, who rendered and what
    \* ---- MultiProgressTracker -----------------------------------------
    update_thread,    \* MultiProgressTracker._update_thread
    stop_event,       \* MultiProgressTracker._stop_event
    loops,            \* the threads created to run _monitor_loop
    callers,          \* thread id -> its position in start_monitoring or stop_monitoring
    monitoring,       \* history: a start_monitoring has returned, no stop_monitoring since
    monitor_calls     \* history: calls made on the MultiProgressTracker

evars == <<archive, pc, interrupted, temp_dirs, dirs_created, format_detected,
           extraction_path,
           metadata, idx, hashed, events, links, writes, result, outcomes, observed>>
tvars == <<trackers, locks, threads, clock, calls>>
cvars == <<source_files, target_files, comparison_mode, roots_exist, cpc,
           future_to_path, comparison, completion_order, counted_as,
           max_workers, tasks>>
gvars == <<engines, handler, disk, workers, created, attempted>>
ovars == <<objects, bubbled>>
mvars == <<update_thread, stop_event, loops, callers, monitoring, monitor_calls>>
xvars == <<earlier, ovars, mvars>>
vars == <<evars, tvars, cvars, gvars, xvars>>

\* ------------------------------------------------------------------------
\* Bounds of the model
\* ------------------------------------------------------------------------
MaxMembers == 2
MaxChunks == 1
MaxCalls == 2         \* calls made on the trackers, over all threads
MaxSeqCalls == 2      \* calls made on the trackers by the one thread of SpecTrackerSeq
MaxPaths == 2         \* relative paths of the compared trees

\* min(32, (os.cpu_count() or 1) + 4) on a machine with one processor: the
\* size of the pool when the caller gives none
default_max_workers == 5

\* ------------------------------------------------------------------------
\* Generic helpers
\* ------------------------------------------------------------------------
Last(s) == s[Len(s)]
Front(s) == SubSeq(s, 1, Len(s) - 1)
IsPrefix(p, s) == Len(p) <= Len(s) /\ SubSeq(s, 1, Len(p)) = p
IsSuffix(p, s) == Len(p) <= Len(s) /\ SubSeq(s, Len(s) - Len(p) + 1, Len(s)) = p

RECURSIVE SeqsUpTo(_, _)
SeqsUpTo(S, n) ==
    IF n = 0 THEN {<<>>}
    ELSE LET shorter == SeqsUpTo(S, n - 1)
         IN shorter \cup {Append(s, x) : s \in {t \in shorter : Len(t) = n - 1}, x \in S}

RECURSIVE Count(_, _)
Count(s, S) ==
    IF s = <<>> THEN 0 ELSE (IF Head(s) \in S THEN 1 ELSE 0) + Count(Tail(s), S)

Range(s) == {s[k] : k \in DOMAIN s}

\* Python's None
None == <<>>

\* ------------------------------------------------------------------------
\* Constants of extraction_engine.py
\* ------------------------------------------------------------------------
\* MAX_EXTRACT_SIZE = 10 * 1024^3 bytes; sizes are counted in GiB in this model
MAX_EXTRACT_SIZE == 10

\* SUPPORTED_FORMATS in dictionary order. A file name is the sequence of its
\* lower-cased dot-separated parts (<<"b", ".tar", ".gz">> is b.tar.gz), so
\* str.endswith(ext) is IsSuffix(ext, name).
SUPPORTED_FORMATS ==
    << <<<<".tar">>, "tar">>,
       <<<<".tar", ".gz">>, "tar.gz">>,
       <<<<".tgz">>, "tar.gz">>,
       <<<<".tar", ".bz2">>, "tar.bz2">>,
       <<<<".tbz2">>, "tar.bz2">>,
       <<<<".tar", ".xz">>, "tar.xz">>,
       <<<<".zip">>, "zip">>,
       <<<<".snapshot">>, "qdrant">> >>

\* MAGIC_BYTES in dictionary order; bytes as integers
MAGIC_BYTES ==
    << <<<<31, 139>>, "gzip">>,
       <<<<80, 75, 3, 4>>, "zip">>,
       <<<<80, 75, 5, 6>>, "zip">>,
       <<<<80, 75, 7, 8>>, "zip">>,
       <<<<66, 90, 104>>, "bzip2">>,
       <<<<253, 55, 122, 88, 90, 0>>, "xz">> >>

TarFormats == {"tar", "tar.gz", "tar.bz2", "tar.xz"}

\* ------------------------------------------------------------------------
\* Paths. A member name is [abs, segs]; a location on disk is the sequence
\* of its components from the filesystem root.
\* ------------------------------------------------------------------------
DestRoot == <<"d">>       \* the resolved extraction directory
OutsideDir == <<"o">>     \* an existing directory outside of it

\* os.path.normpath (posixpath): lexical collapse of "." and ".."
RECURSIVE NormSegs(_, _, _)
NormSegs(segs, acc, abs) ==
    IF segs = <<>> THEN acc
    ELSE LET s == Head(segs)
             rest == Tail(segs)
         IN IF s = "." THEN NormSegs(rest, acc, abs)
            ELSE IF s # ".." \/ (~abs /\ acc = <<>>) \/ (acc # <<>> /\ Last(acc) = "..")
                 THEN NormSegs(rest, Append(acc, s), abs)
            ELSE IF acc # <<>> THEN NormSegs(rest, Front(acc), abs)
            ELSE NormSegs(rest, acc, abs)

normpath(name) == [abs |-> name.abs, segs |-> NormSegs(name.segs, <<>>, name.abs)]

\* '..' in member_path: a substring test, so a component such as "x..y" matches
SegHasDotDot(s) == s \in {"..", "x..y"}

\* How the operating system (and Path.resolve) walks a path: component by
\* component, ".." taken from the location reached, symlinks followed.
RECURSIVE Walk(_, _, _)
Walk(loc, segs, lnk) ==
    IF segs = <<>> THEN loc
    ELSE LET s == Head(segs)
             step == IF s = "." THEN loc
                     ELSE IF s = ".." THEN (IF loc = <<>> THEN loc ELSE Front(loc))
                     ELSE Append(loc, s)
             tgt == IF step \in DOMAIN lnk THEN lnk[step] ELSE step
         IN Walk(tgt, Tail(segs), lnk)

IsUnder(loc, root) == IsPrefix(root, loc)

\* ExtractionEngine._validate_path_security
validate_path_security(name, lnk) ==
    LET member_path == normpath(name)
    IN IF (\E k \in 1..Len(member_path.segs) : SegHasDotDot(member_path.segs[k]))
          \/ member_path.abs
       THEN FALSE
       ELSE IsUnder(Walk(DestRoot, member_path.segs, lnk), DestRoot)

\* tarfile.extract(member, extraction_dir) without an extraction filter (the
\* Python versions setup.py lists): the target is os.path.join(dir, member.name),
\* not normalised, handed to the operating system. A symlink member is created
\* at its name (the last component is not followed).
TarTarget(m, lnk) ==
    LET base == IF m.name.abs THEN <<>> ELSE DestRoot
    IN IF m.kind = "symlink"
       THEN Append(Walk(base, Front(m.name.segs), lnk), Last(m.name.segs))
       ELSE Walk(base, m.name.segs, lnk)

\* zipfile.extract(member, extraction_dir): drops "", "." and ".." components
\* and joins the rest under the directory; never creates a symlink.
ZipTarget(m, lnk) ==
    Walk(DestRoot, SelectSeq(m.name.segs, LAMBDA s : s \notin {"", ".", ".."}), lnk)

\* ------------------------------------------------------------------------
\* Inputs of one test_extraction call
\* ------------------------------------------------------------------------
Member(abs, segs, kind, size, ok) ==
    [name |-> [abs |-> abs, segs |-> segs], kind |-> kind, size |-> size, ok |-> ok]

\* The archive members the model draws from. size is the declared size (GiB),
\* ok tells whether writing the member to disk succeeds, a symlink member
\* points at OutsideDir.
MemberPool ==
    { Member(FALSE, <<"a">>, "file", 10, TRUE),
      Member(FALSE, <<"b">>, "file", 1, FALSE),
      Member(FALSE, <<"..", "b">>, "file", 1, TRUE),
      Member(TRUE, <<"b">>, "file", 1, TRUE),
      Member(FALSE, <<"a">>, "symlink", 0, TRUE),
      Member(FALSE, <<"a", "..", "b">>, "file", 1, TRUE),
      Member(FALSE, <<"a", "f">>, "file", 1, TRUE),
      Member(FALSE, <<"b">>, "file", 11, TRUE),
      Member(FALSE, <<"..", "b">>, "file", 11, TRUE) }

\* File names (lower-cased parts) and 8-byte headers (only the leading bytes
\* that matter are written)
ExtractNames == {<<"b", ".tar">>, <<"b", ".zip">>, <<"b", ".snapshot">>}
OtherNames ==
    {<<"b", ".tar", ".gz">>, <<"b", ".tgz">>, <<"b", ".tar", ".bz2">>, <<"b", ".tbz2">>,
     <<"b", ".tar", ".xz">>, <<"b", ".bin">>, <<"b", ".gz">>, <<"b">>}
Headers ==
    {<<31, 139, 8>>, <<80, 75, 3, 4>>, <<80, 75, 5, 6>>, <<80, 75, 7, 8>>, <<66, 90, 104>>,
     <<253, 55, 122, 88, 90, 0>>, <<80, 75, 1, 2>>, <<0>>, <<>>}
Callbacks == {"none", "ok", "member"}   \* no callback / one that returns /
                                        \* one that raises on "Extracted: ..."

Archive(exists, is_file, name, header, readable, parsable, chunks, members, dir_given, cb) ==
    [exists |-> exists, is_file |-> is_file, name |-> name, header |-> header,
     readable |-> readable, parsable |-> parsable, chunks |-> chunks,
     members |-> members, dir_given |-> dir_given, cb |-> cb]

\* Calls that go through the extraction loop: every member sequence, every
\* callback, a tar, a zip and a qdrant snapshot. An empty file (no chunk) is no
\* archive; a file that cannot be parsed has no members.
ExtractionInputs ==
    { Archive(TRUE, TRUE, n, <<0>>, TRUE, TRUE, c, ms, g, cb) :
        n \in ExtractNames, c \in 1..MaxChunks, ms \in SeqsUpTo(MemberPool, MaxMembers),
        g \in BOOLEAN, cb \in Callbacks }
    \cup
    { Archive(TRUE, TRUE, n, <<0>>, TRUE, FALSE, c, <<>>, g, "ok") :
        n \in ExtractNames, c \in 0..MaxChunks, g \in BOOLEAN }

\* Calls that exercise the pre-flight checks: every name and header, paths that
\* do not exist or are no file, files that cannot be opened.
PreflightInputs ==
    { Archive(e[1], e[2], n, h, r, TRUE, 1, <<Member(FALSE, <<"a">>, "file", 10, TRUE)>>, g, "ok") :
        e \in {<<FALSE, FALSE>>, <<TRUE, FALSE>>, <<TRUE, TRUE>>},
        n \in OtherNames \cup ExtractNames, h \in Headers, r \in BOOLEAN, g \in BOOLEAN }

\* ------------------------------------------------------------------------
\* ExtractionEngine
\* ------------------------------------------------------------------------
RECURSIVE ExtFormat(_, _)
ExtFormat(name, k) ==
    IF k > Len(SUPPORTED_FORMATS) THEN "none"
    ELSE IF IsSuffix(SUPPORTED_FORMATS[k][1], name) THEN SUPPORTED_FORMATS[k][2]
    ELSE ExtFormat(name, k + 1)

RECURSIVE MagicFormat(_, _)
MagicFormat(header, k) ==
    IF k > Len(MAGIC_BYTES) THEN "none"
    ELSE IF IsPrefix(MAGIC_BYTES[k][1], header) THEN MAGIC_BYTES[k][2]
    ELSE MagicFormat(header, k + 1)

\* Faulty variant of detect_format: an undetected format is returned as a value
\* instead of raising
detect_format_no_raise(a) ==
    LET byExt == ExtFormat(a.name, 1)
    IN IF byExt # "none" THEN byExt ELSE "unrecognized"

\* ExtractionEngine._detect_format; "none" stands for the ExtractionError raised
detect_format(a) ==
    LET byExt == ExtFormat(a.name, 1)
        byMagic == IF a.readable THEN MagicFormat(a.header, 1) ELSE "none"
    IN IF byExt # "none" THEN byExt
       ELSE IF byMagic = "gzip" THEN "tar.gz"
       ELSE IF byMagic = "bzip2" THEN "tar.bz2"
       ELSE IF byMagic = "xz" THEN "tar.xz"
       ELSE byMagic

NewMetadata ==
    [total_files |-> 0, total_size |-> 0, extracted_files |-> 0, extracted_size |-> 0,
     errors |-> <<>>, warnings |-> <<>>]

\* What one iteration of the loop in _extract_tar / _extract_zip does with a
\* member: "unsafe" and "oversize" are the two `continue`s, "failed" is an
\* exception of extract(), "cbfailed" an exception of the progress callback,
\* which the same try block catches after the member was counted.
member_outcome(m, lnk, cb) ==
    IF ~validate_path_security(m.name, lnk) THEN "unsafe"
    ELSE IF m.size > MAX_EXTRACT_SIZE THEN "oversize"
    ELSE IF ~m.ok THEN "failed"
    ELSE IF cb = "member" THEN "cbfailed"
    ELSE "extracted"

\* Faulty variant of apply_outcome: an oversized member is recorded as an error
apply_outcome_oversize_error(md, m, o) ==
    LET counted == [md EXCEPT !.extracted_files = @ + 1,
                              !.extracted_size = @ + (IF m.kind = "file" THEN m.size ELSE 0)]
    IN CASE o = "unsafe" -> [md EXCEPT !.warnings = Append(@, "Skipped unsafe path")]
         [] o = "oversize" -> [md EXCEPT !.errors = Append(@, "Skipped oversized file")]
         [] o = "failed" -> [md EXCEPT !.errors = Append(@, "Failed to extract")]
         [] o = "cbfailed" -> [counted EXCEPT !.errors = Append(@, "Failed to extract")]
         [] OTHER -> counted

\* Faulty variant of apply_outcome: the member is counted before extract() is tried
apply_outcome_count_first(md, m, o) ==
    LET counted == [md EXCEPT !.extracted_files = @ + 1,
                              !.extracted_size = @ + (IF m.kind = "file" THEN m.size ELSE 0)]
    IN CASE o = "unsafe" -> [md EXCEPT !.warnings = Append(@, "Skipped unsafe path")]
         [] o = "oversize" -> [md EXCEPT !.warnings = Append(@, "Skipped oversized file")]
         [] o \in {"failed", "cbfailed"} ->
                [counted EXCEPT !.errors = Append(@, "Failed to extract")]
         [] OTHER -> counted

\* The effect of that iteration on the metadata
apply_outcome(md, m, o) ==
    LET counted == [md EXCEPT !.extracted_files = @ + 1,
                              !.extracted_size = @ + (IF m.kind = "file" THEN m.size ELSE 0)]
    IN CASE o = "unsafe" -> [md EXCEPT !.warnings = Append(@, "Skipped unsafe path")]
         [] o = "oversize" -> [md EXCEPT !.warnings = Append(@, "Skipped oversized file")]
         [] o = "failed" -> [md EXCEPT !.errors = Append(@, "Failed to extract")]
         [] o = "cbfailed" -> [counted EXCEPT !.errors = Append(@, "Failed to extract")]
         [] OTHER -> counted

\* Where extract() puts the member
extract_target(m, lnk, fmt) ==
    IF fmt = "zip" THEN ZipTarget(m, lnk) ELSE TarTarget(m, lnk)

\* The sum of the sizes of the regular files of the archive
RECURSIVE SumSizes(_)
SumSizes(ms) ==
    IF ms = <<>> THEN 0
    ELSE (IF Head(ms).kind = "file" THEN Head(ms).size ELSE 0) + SumSizes(Tail(ms))

\* progress_callback(percent, message), percent kept as the fraction num/den
Emit(num, den, msg) ==
    events' = IF archive.cb = "none" THEN events ELSE Append(events, <<num, den, msg>>)

\* Faulty variant of failed_result: the archive's totals are reported as the counts
failed_result_totals(md, msg) ==
    [success |-> FALSE,
     extraction_path |-> IF extraction_path = "unset" THEN "." ELSE extraction_path,
     metadata |-> md,
     format_detected |-> IF format_detected = "unset" THEN "unknown" ELSE format_detected,
     file_count |-> md.total_files,
     total_size |-> md.total_size,
     checksum |-> "None",
     error_message |-> msg]

\* The ExtractionResult built by the except clause of test_extraction
failed_result(md, msg) ==
    [success |-> FALSE,
     extraction_path |-> IF extraction_path = "unset" THEN "." ELSE extraction_path,
     metadata |-> md,
     format_detected |-> IF format_detected = "unset" THEN "unknown" ELSE format_detected,
     file_count |-> md.extracted_files,
     total_size |-> md.extracted_size,
     checksum |-> "None",
     error_message |-> msg]

\* The except clause of test_extraction: an exception with message msg reached it
Raise(msg) ==
    LET md == [metadata EXCEPT !.errors = Append(@, msg)]
    IN /\ metadata' = md
       /\ result' = <<failed_result(md, msg)>>
       /\ pc' = "done"

\* test_extraction up to format detection
Preflight ==
    /\ pc = "start"
    /\ IF ~archive.exists
       THEN Raise("Backup file not found") /\ UNCHANGED format_detected
       ELSE IF ~archive.is_file
       THEN Raise("Path is not a file") /\ UNCHANGED format_detected
       ELSE IF detect_format(archive) = "none"
       THEN Raise("Unsupported or unrecognized format") /\ UNCHANGED format_detected
       ELSE /\ format_detected' = detect_format(archive)
            /\ pc' = "setup"
            /\ UNCHANGED <<metadata, result>>
    /\ UNCHANGED <<archive, interrupted, temp_dirs, dirs_created, extraction_path, idx,
                   hashed, events, links, writes, outcomes, observed>>
    /\ UNCHANGED <<tvars, cvars, gvars, xvars>>

\* The extraction directory (_create_secure_temp_dir or mkdir) and the first
\* progress event
Setup ==
    /\ pc = "setup"
    /\ IF archive.dir_given
       THEN /\ extraction_path' = "given"
            /\ UNCHANGED temp_dirs
       ELSE /\ extraction_path' = "temp"
            /\ temp_dirs' = Append(temp_dirs, "temp")
    /\ dirs_created' = dirs_created \cup {extraction_path'}
    /\ Emit(0, 1, "Calculating checksum...")
    /\ pc' = "hash"
    /\ UNCHANGED <<archive, interrupted, format_detected, metadata, idx, hashed, links,
                   writes, result, outcomes, observed>>
    /\ UNCHANGED <<tvars, cvars, gvars, xvars>>

\* Faulty variant of check_interrupted: the flag is never looked at
check_interrupted_never == FALSE

\* _check_interrupted raises exactly when the flag is set
check_interrupted == interrupted

\* _calculate_checksum: one chunk read and hashed, then _check_interrupted
HashChunk ==
    /\ pc = "hash"
    /\ IF ~archive.readable
       THEN Raise("Permission denied") /\ UNCHANGED <<hashed, observed>>
       ELSE /\ hashed < archive.chunks
            /\ hashed' = hashed + 1
            /\ IF check_interrupted
               THEN Raise("Extraction interrupted by user") /\ observed' = TRUE
               ELSE UNCHANGED <<metadata, result, pc, observed>>
    /\ UNCHANGED <<archive, interrupted, temp_dirs, dirs_created, format_detected,
                   extraction_path, idx, events, links, writes, outcomes>>
    /\ UNCHANGED <<tvars, cvars, gvars, xvars>>

\* The checksum is complete; the archive is opened and its members are listed
OpenArchive ==
    /\ pc = "hash"
    /\ archive.readable
    /\ hashed = archive.chunks
    /\ Emit(5, 1, "Starting extraction...")
    /\ IF format_detected \notin TarFormats \cup {"zip", "qdrant"}
       THEN Raise("Unsupported format")
       ELSE IF ~archive.parsable
       THEN IF format_detected = "qdrant"
            THEN pc' = "fallback" /\ UNCHANGED <<metadata, result>>
            ELSE Raise("file could not be opened successfully")
       ELSE /\ metadata' = [metadata EXCEPT !.total_files = Len(archive.members),
                                            !.total_size = SumSizes(archive.members)]
            /\ pc' = "members"
            /\ UNCHANGED result
    /\ UNCHANGED <<archive, interrupted, temp_dirs, dirs_created, format_detected,
                   extraction_path, idx, hashed, links, writes, outcomes, observed>>
    /\ UNCHANGED <<tvars, cvars, gvars, xvars>>

\* Faulty variant of progress: the percentage of the members before this one
progress_before(i, n) == <<i * 100, n>>

\* progress = (i + 1) / len(members) * 100, kept as the fraction num/den
progress(i, n) == <<(i + 1) * 100, n>>

\* One iteration of the member loop
ExtractMember ==
    /\ pc = "members"
    /\ idx < Len(archive.members)
    /\ IF check_interrupted
       THEN /\ observed' = TRUE
            /\ IF format_detected = "qdrant"
               THEN pc' = "fallback" /\ UNCHANGED <<metadata, result>>
               ELSE Raise("Extraction interrupted by user")
            /\ UNCHANGED <<idx, events, links, writes, outcomes>>
       ELSE LET m == archive.members[idx + 1]
                o == member_outcome(m, links, archive.cb)
                target == extract_target(m, links, format_detected)
                written == o \in {"extracted", "cbfailed"}
            IN /\ metadata' = apply_outcome(metadata, m, o)
               /\ outcomes' = Append(outcomes, o)
               /\ writes' = IF written THEN writes \cup {target} ELSE writes
               /\ links' = IF written /\ m.kind = "symlink" /\ format_detected # "zip"
                           THEN [l \in DOMAIN links \cup {target} |->
                                    IF l = target THEN OutsideDir ELSE links[l]]
                           ELSE links
               /\ IF written
                  THEN Emit(progress(idx, Len(archive.members))[1],
                            progress(idx, Len(archive.members))[2], "Extracted")
                  ELSE UNCHANGED events
               /\ idx' = idx + 1
               /\ UNCHANGED <<pc, result, observed>>
    /\ UNCHANGED <<archive, interrupted, temp_dirs, dirs_created, format_detected,
                   extraction_path, hashed>>
    /\ UNCHANGED <<tvars, cvars, gvars, xvars>>

\* The except clause of _extract_qdrant_snapshot: the archive is copied as a file
QdrantFallback ==
    /\ pc = "fallback"
    /\ writes' = writes \cup {Append(DestRoot, "b.snapshot")}
    /\ metadata' = [metadata EXCEPT !.total_files = 1, !.extracted_files = 1,
                                    !.total_size = archive.chunks,
                                    !.extracted_size = archive.chunks]
    /\ Emit(100, 1, "Copied")
    /\ pc' = "finish"
    /\ UNCHANGED <<archive, interrupted, temp_dirs, dirs_created, format_detected,
                   extraction_path, idx, hashed, links, result, outcomes, observed>>
    /\ UNCHANGED <<tvars, cvars, gvars, xvars>>

\* The loop is over
MembersDone ==
    /\ pc = "members"
    /\ idx = Len(archive.members)
    /\ pc' = "finish"
    /\ UNCHANGED <<archive, interrupted, temp_dirs, dirs_created, format_detected,
                   extraction_path, metadata, idx, hashed, events, links, writes, result,
                   outcomes, observed>>
    /\ UNCHANGED <<tvars, cvars, gvars, xvars>>

\* The successful return of test_extraction
Finish ==
    /\ pc = "finish"
    /\ Emit(100, 1, "Extraction completed")
    /\ result' = <<[success |-> TRUE,
                    extraction_path |-> extraction_path,
                    metadata |-> metadata,
                    format_detected |-> format_detected,
                    file_count |-> metadata.extracted_files,
                    total_size |-> metadata.extracted_size,
                    checksum |-> "sha256",
                    error_message |-> "None"]>>
    /\ pc' = "done"
    /\ UNCHANGED <<archive, interrupted, temp_dirs, dirs_created, format_detected,
                   extraction_path, metadata, idx, hashed, links, writes, outcomes, observed>>
    /\ UNCHANGED <<tvars, cvars, gvars, xvars>>

\* ExtractionEngine._signal_handler, or the orchestrator setting the flag
Interrupt ==
    /\ pc # "done"
    /\ ~interrupted
    /\ interrupted' = TRUE
    /\ UNCHANGED <<archive, pc, temp_dirs, dirs_created, format_detected, extraction_path,
                   metadata, idx, hashed, events, links, writes, result, outcomes, observed>>
    /\ UNCHANGED <<tvars, cvars, gvars, xvars>>

\* the state when test_extraction is entered on a fresh engine, for an
\* archive and a callback of the set inputs
InitExtractionOf(inputs) ==
    /\ archive \in inputs
    /\ pc = "start"
    /\ interrupted = FALSE
    /\ temp_dirs = <<>>
    /\ dirs_created = {}
    /\ format_detected = "unset"
    /\ extraction_path = "unset"
    /\ metadata = NewMetadata
    /\ idx = 0
    /\ hashed = 0
    /\ events = <<>>
    /\ links = <<>>
    /\ writes = {}
    /\ result = <<>>
    /\ outcomes = <<>>
    /\ observed = FALSE
    \* no tracker takes part in this specification
    /\ trackers = <<>>
    /\ locks = <<>>
    /\ threads = <<>>
    /\ clock = 0
    /\ calls = 0
    \* no comparison takes part in this specification
    /\ source_files = <<>>
    /\ target_files = <<>>
    /\ comparison_mode = "full"
    /\ roots_exist = <<FALSE, FALSE>>
    /\ cpc = "done"
    /\ future_to_path = {}
    /\ comparison = <<>>
    /\ completion_order = <<>>
    /\ counted_as = <<>>
    /\ max_workers = default_max_workers
    /\ tasks = <<>>
    \* no engine instance takes part in this specification
    /\ engines = <<>>
    /\ handler = "default"
    /\ disk = {}
    /\ workers = <<>>
    /\ created = <<>>
    /\ attempted = {}
    \* no further call, no tracker object and no monitor
    /\ earlier = <<>>
    /\ objects = <<>>
    /\ bubbled = <<>>
    /\ update_thread = 0
    /\ stop_event = FALSE
    /\ loops = <<>>
    /\ callers = <<>>
    /\ monitoring = FALSE
    /\ monitor_calls = 0

InitExtraction == InitExtractionOf(ExtractionInputs \cup PreflightInputs)

NextExtraction ==
    \/ Preflight
    \/ Setup
    \/ HashChunk
    \/ OpenArchive
    \/ ExtractMember
    \/ QdrantFallback
    \/ MembersDone
    \/ Finish
    \/ Interrupt

SpecExtraction == InitExtraction /\ [][NextExtraction]_vars

\* ------------------------------------------------------------------------
\* The same call on archives of many members (SpecExtractionLong): a tar, a
\* zip and a qdrant snapshot of up to MaxLongMembers regular files, each
\* accepted and written, with a callback that returns
\* ------------------------------------------------------------------------
MaxLongMembers == 21

LongInputs ==
    { Archive(TRUE, TRUE, n, <<0>>, TRUE, TRUE, 1,
              [i \in 1..k |-> Member(FALSE, <<"a">>, "file", 1, TRUE)], TRUE, "ok") :
        n \in ExtractNames, k \in 1..MaxLongMembers }

InitExtractionLong == InitExtractionOf(LongInputs)

SpecExtractionLong == InitExtractionLong /\ [][NextExtraction]_vars

\* ------------------------------------------------------------------------
\* Further test_extraction calls on the same engine (SpecExtractionAgain):
\* when a call has returned, the caller makes the next one, on a valid
\* archive of one regular file
\* ------------------------------------------------------------------------
MaxAgain == 1         \* calls made on the engine after the first

AgainInputs ==
    { Archive(TRUE, TRUE, n, <<0>>, TRUE, TRUE, 1,
              <<Member(FALSE, <<"a">>, "file", 1, TRUE)>>, g, "ok") :
        n \in {<<"b", ".tar">>, <<"b", ".zip">>}, g \in BOOLEAN }

\* test_extraction is entered again: its locals are fresh, the fields of the
\* engine (_interrupted, temp_dirs) and the disk are as the earlier calls
\* left them
CallAgain ==
    /\ pc = "done"
    /\ Len(earlier) < MaxAgain
    /\ earlier' = Append(earlier, [observed |-> observed, interrupted |-> interrupted,
                                   success |-> result[1].success])
    /\ archive' \in AgainInputs
    /\ pc' = "start"
    /\ format_detected' = "unset"
    /\ extraction_path' = "unset"
    /\ metadata' = NewMetadata
    /\ idx' = 0
    /\ hashed' = 0
    /\ events' = <<>>
    /\ result' = <<>>
    /\ outcomes' = <<>>
    /\ observed' = FALSE
    /\ UNCHANGED <<interrupted, temp_dirs, dirs_created, links, writes>>
    /\ UNCHANGED <<tvars, cvars, gvars, ovars, mvars>>

InitExtractionAgain == InitExtractionOf(AgainInputs \cup {a \in ExtractionInputs : a.members = <<>>})

NextExtractionAgain ==
    \/ Preflight
    \/ Setup
    \/ HashChunk
    \/ OpenArchive
    \/ ExtractMember
    \/ QdrantFallback
    \/ MembersDone
    \/ Finish
    \/ Interrupt
    \/ CallAgain

SpecExtractionAgain == InitExtractionAgain /\ [][NextExtractionAgain]_vars

\* ------------------------------------------------------------------------
\* Claims about the extraction engine (checked under SpecExtraction)
\* ------------------------------------------------------------------------
Rejected == {"unsafe", "oversize"}
Written == {"extracted", "cbfailed"}
Returned == pc = "done" /\ Len(result) = 1
LoopCompleted == Len(archive.members) > 0 /\ Len(outcomes) = Len(archive.members)
InLoop == pc = "members" /\ idx < Len(archive.members) /\ ~interrupted
          /\ interrupted' = interrupted

\* A member the claim calls rejected: by the path validation or by the ceiling
IsRejected(m, lnk) == ~validate_path_security(m.name, lnk) \/ m.size > MAX_EXTRACT_SIZE

RECURSIVE NumRejected(_)
NumRejected(ms) ==
    IF ms = <<>> THEN 0
    ELSE (IF IsRejected(Head(ms), <<>>) THEN 1 ELSE 0) + NumRejected(Tail(ms))

RECURSIVE SizeOfExtracted(_, _)
SizeOfExtracted(ms, outs) ==
    IF outs = <<>> THEN 0
    ELSE (IF Head(outs) \in Written /\ Head(ms).kind = "file" THEN Head(ms).size ELSE 0)
         + SizeOfExtracted(Tail(ms), Tail(outs))

\* C1: output-path containment: no write of an extraction lands outside the
\* resolved destination root, whatever the member names of the archive.
C1_OutputPathContainment == \A w \in writes : IsUnder(w, DestRoot)

\* C2: a member rejected by the path validation or by the size ceiling is
\* skipped with exactly one warning and no error, also when it fails both
\* checks, and the loop goes on to the next member; when the loop has run
\* over the n members of an archive, k of them rejected, the result is a
\* success, there are k warnings and file_count is n - k less the members
\* whose extraction failed (n - k when none failed).
C2_RejectedStep ==
    (InLoop /\ IsRejected(archive.members[idx + 1], links))
        => /\ idx' = idx + 1
           /\ pc' = "members"
           /\ result' = <<>>
           /\ Len(metadata'.warnings) = Len(metadata.warnings) + 1
           /\ metadata'.errors = metadata.errors
           /\ metadata'.extracted_files = metadata.extracted_files
           /\ metadata'.extracted_size = metadata.extracted_size
           /\ writes' = writes
           /\ links' = links

C2_AtReturn ==
    (Returned /\ LoopCompleted)
        => LET r == result[1]
               n == Len(archive.members)
               k == Count(outcomes, Rejected)
               f == Count(outcomes, {"failed"})
           IN /\ r.success
              /\ Len(r.metadata.warnings) = k
              /\ r.file_count = n - k - f
              /\ (\A j \in 1..n : archive.members[j].kind # "symlink")
                    => k = NumRejected(archive.members)

C3_FailedStep ==
    (InLoop /\ ~IsRejected(archive.members[idx + 1], links) /\ ~archive.members[idx + 1].ok)
        => /\ idx' = idx + 1
           /\ pc' = "members"
           /\ result' = <<>>
           /\ metadata'.errors = Append(metadata.errors, "Failed to extract")
           /\ metadata'.warnings = metadata.warnings
           /\ metadata'.extracted_files = metadata.extracted_files
           /\ metadata'.extracted_size = metadata.extracted_size

C3_AtReturn ==
    (Returned /\ ~observed /\ \E j \in 1..Len(outcomes) : outcomes[j] = "failed")
        => /\ result[1].success
           /\ Len(outcomes) = Len(archive.members)
           /\ result[1].file_count = Count(outcomes, Written)
           /\ Len(result[1].metadata.errors) = Count(outcomes, {"failed", "cbfailed"})

C3_WriteFailureContinues == []C3_AtReturn /\ [][C3_FailedStep]_vars

\* C3 witness: the first member's write failed, the second was extracted, and
\* the call returned success with one file and one error.
C3_Witness ==
    /\ Returned
    /\ result[1].success
    /\ outcomes = <<"failed", "extracted">>
    /\ result[1].file_count = 1
    /\ Len(result[1].metadata.errors) = 1

\* C4: an extraction that has observed the interruption flag (at a hash-chunk
\* or member boundary) never returns success=true, for every archive format.
C4_InterruptedNeverSucceeds == (Returned /\ observed) => ~result[1].success

Undetectable(a) ==
    /\ \A k \in 1..Len(SUPPORTED_FORMATS) : ~IsSuffix(SUPPORTED_FORMATS[k][1], a.name)
    /\ (~a.readable \/ \A k \in 1..Len(MAGIC_BYTES) : ~IsPrefix(MAGIC_BYTES[k][1], a.header))

PreflightFails(a) == ~a.exists \/ ~a.is_file \/ Undetectable(a)

\* C6: when the archive path does not exist, is no file, or has a format
\* that neither its extension nor its magic bytes give, the call fails before
\* any write: no directory is created, the tracked temp-dir list is
\* unchanged, no chunk is hashed, no member is written, no progress event is
\* emitted.
C6_PreflightFailureWritesNothing ==
    PreflightFails(archive)
        => /\ dirs_created = {}
           /\ temp_dirs = <<>>
           /\ extraction_path = "unset"
           /\ hashed = 0
           /\ writes = {}
           /\ links = <<>>
           /\ events = <<>>
           /\ outcomes = <<>>
           /\ pc \in {"start", "done"}
           /\ Returned => ~result[1].success

\* C6 witness: a file with an unknown extension and a header that is no magic
\* number (PK\x01\x02) was refused.
C6_Witness ==
    /\ Returned
    /\ archive.name = <<"b", ".bin">>
    /\ archive.header = <<80, 75, 1, 2>>
    /\ archive.readable
    /\ result[1].error_message = "Unsupported or unrecognized format"
    /\ result[1].format_detected = "unknown"

\* ------------------------------------------------------------------------
\* ProgressTracker: a parent tracker "P" with display mode CALLBACK and two
\* sub-trackers "A" and "B" added with add_sub_operation (mode SILENT), called
\* from two threads. A call is run as the sequence of its steps; a step that
\* takes a lock waits until the lock is free.
\* ------------------------------------------------------------------------
Trackers == {"P", "A", "B"}
Threads == {"t1", "t2"}
NoThread == "none"
NoTime == -1                \* _start_time is None

total_items(X) == IF X = "P" THEN 1 ELSE 2
mode(X) == IF X = "P" THEN "callback" ELSE "silent"
\* The tree add_sub_operation builds: "A" and "B" are added to "P", and "G"
\* to "A" in the specifications that have it; a tracker's _sub_trackers are
\* those of its sub-operations that were added
parent_tracker(X) == IF X = "P" THEN "none" ELSE IF X = "G" THEN "A" ELSE "P"
sub_ids(X) == IF X = "P" THEN <<"A", "B">> ELSE IF X = "A" THEN <<"G">> ELSE <<>>
sub_trackers(X) ==
    LET Added(Y) == Y \in DOMAIN trackers
    IN SelectSeq(sub_ids(X), Added)

\* update_interval, in clock ticks
update_interval == 1
\* the values time.time() takes: one interval passes at most
LastTick == update_interval
\* ProgressTracker._max_samples
max_samples == 10

\* Faulty variant of Min: no clamp to the second argument
Min_first(a, b) == a

Min(a, b) == IF a < b THEN a ELSE b
Max(a, b) == IF a > b THEN a ELSE b

NewTracker ==
    [current_item |-> 0, start_time |-> NoTime, last_update_time |-> 0,
     custom_message |-> "", is_finished |-> FALSE, throughput_samples |-> <<>>,
     \* history: sink invocations, update() increments applied and the threads
     \* that applied them, whether set_current() or finish() was applied,
     \* messages of the finish() calls, whether a start() found it started,
     \* times of the sink invocations other than those of the tracker's own
     \* first start() and first finish()
     renders |-> 0, n_updates |-> 0, updaters |-> {}, touched |-> FALSE,
     finishes |-> <<>>, restarted |-> FALSE, unforced |-> <<>>]

I(op, X, arg, msg) == [op |-> op, tr |-> X, arg |-> arg, msg |-> msg]

\* get_report(): the tracker's lock is taken, every sub-tracker's get_report()
\* is called in turn under it, and the ProgressReport is built as the lock is
\* released
RECURSIVE get_report(_), sub_reports(_)
get_report(X) == <<I("acquire", X, 0, "")>> \o sub_reports(sub_trackers(X))
                 \o <<I("release", X, 0, "report")>>
sub_reports(subs) ==
    IF subs = <<>> THEN <<>> ELSE get_report(Head(subs)) \o sub_reports(Tail(subs))

\* Faulty variant of notify_update: the parent is not notified
notify_update_no_parent(X) ==
    get_report(X) \o (IF mode(X) = "silent" THEN <<>> ELSE <<I("sink", X, 0, "")>>)

\* _notify_update(): the tracker's own report, then the parent's
\* _notify_update(), then the tracker's sink (none in mode SILENT)
RECURSIVE notify_update(_)
notify_update(X) ==
    get_report(X)
    \o (IF parent_tracker(X) = "none" THEN <<>> ELSE notify_update(parent_tracker(X)))
    \o (IF mode(X) = "silent" THEN <<>> ELSE <<I("sink", X, 0, "")>>)

\* the _notify_update() made by X's own start() or finish(): X's sink
\* invocation is marked, the ancestors' are not
RECURSIVE own_notify(_, _)
own_notify(X, instrs) ==
    IF instrs = <<>> THEN <<>>
    ELSE LET i == Head(instrs)
         IN <<IF i.op = "sink" /\ i.tr = X THEN [i EXCEPT !.msg = "own"] ELSE i>>
            \o own_notify(X, Tail(instrs))

\* The steps of each public method
start(X) == <<I("acquire", X, 0, ""), I("start", X, 0, ""), I("release", X, 0, "")>>
update(X, d, msg) ==
    <<I("acquire", X, 0, ""), I("ensure_started", X, 0, ""), I("update_read", X, d, msg),
      I("update_write", X, d, msg), I("release", X, 0, "")>>
set_current(X, v, msg) ==
    <<I("acquire", X, 0, ""), I("ensure_started", X, 0, ""), I("set_current", X, v, msg),
      I("release", X, 0, "")>>
finish(X, msg) ==
    <<I("acquire", X, 0, ""), I("finish", X, 0, msg), I("release", X, 0, "")>>

\* The calls a thread may make (SpecTrackerSeq has the other arguments of
\* update() and set_current())
Programs ==
    {start(X) : X \in Trackers}
    \cup {update(X, 1, "") : X \in Trackers}
    \cup {set_current(X, 3, "") : X \in Trackers}
    \cup {finish(X, "Complete") : X \in Trackers}
    \cup {finish("P", "Done"), get_report("P")}

\* Faulty variant of calculate_throughput: the rate between the first and the
\* last sample of the whole buffer
calculate_throughput_whole_buffer(tr) ==
    LET samples == tr.throughput_samples
        time_diff == Last(samples)[1] - samples[1][1]
        items_diff == Last(samples)[2] - samples[1][2]
    IN IF Len(samples) < 2 THEN None
       ELSE IF time_diff <= 0 THEN None
       ELSE <<items_diff, time_diff>>

\* _calculate_throughput(): the rate between the first and the last of the
\* last three samples, as the fraction <<items, seconds>>; None is <<>>
calculate_throughput(tr) ==
    LET samples == tr.throughput_samples
        recent_samples == SubSeq(samples, Max(1, Len(samples) - 2), Len(samples))
        time_diff == Last(recent_samples)[1] - recent_samples[1][1]
        items_diff == Last(recent_samples)[2] - recent_samples[1][2]
    IN IF Len(samples) < 2 THEN None
       ELSE IF time_diff <= 0 THEN None
       ELSE <<items_diff, time_diff>>

\* _calculate_eta(): the remaining items divided by that rate, as the
\* fraction <<remaining * seconds, items>>
calculate_eta(tr, total) ==
    LET samples == tr.throughput_samples
        recent_samples == SubSeq(samples, Max(1, Len(samples) - 2), Len(samples))
        time_diff == Last(recent_samples)[1] - recent_samples[1][1]
        items_diff == Last(recent_samples)[2] - recent_samples[1][2]
    IN IF Len(samples) < 2 \/ tr.current_item = 0 THEN None
       ELSE IF time_diff <= 0 \/ items_diff <= 0 THEN None
       ELSE <<(total - tr.current_item) * time_diff, items_diff>>

\* The ProgressReport get_report() builds for X, the reports of its
\* sub-trackers being those the thread has just obtained
ProgressReport(X, reports) ==
    [current |-> trackers[X].current_item,
     total |-> total_items(X),
     eta |-> calculate_eta(trackers[X], total_items(X)),
     throughput |-> calculate_throughput(trackers[X]),
     custom_message |-> trackers[X].custom_message,
     sub_operations |-> [Y \in Range(sub_trackers(X)) |-> reports[Y]]]

\* the reports a thread holds, after get_report() of X returned
with_report(th, X) ==
    [Y \in DOMAIN th \cup {X} |-> IF Y = X THEN ProgressReport(X, th) ELSE th[Y]]

Busy(t) == threads[t].stack # <<>>
Next1(t) == Head(threads[t].stack)
\* thread t has executed its first step, and puts `more` in front of the rest
Step(t, more) == threads' = [threads EXCEPT ![t].stack = more \o Tail(@)]

\* Faulty variant of can_acquire: the lock does not exclude
can_acquire_always(t, X) == TRUE

\* threading.RLock: free, or held by the same thread
can_acquire(t, X) == locks[X].owner \in {NoThread, t}

\* Faulty variant of finish_returns_early: finish() without its guard
finish_never_returns_early(tr) == FALSE

\* finish(): `if self._is_finished: return`
finish_returns_early(tr) == tr.is_finished

\* Faulty variant of start_returns_early: start() without its guard
start_never_returns_early(tr) == FALSE

\* start(): `if self._start_time is not None: return`
start_returns_early(tr) == tr.start_time # NoTime

\* Faulty variant of add_sample: beyond _max_samples the newest sample is
\* the one dropped
add_sample_keep_oldest(samples, t, items) ==
    LET more == Append(samples, <<t, items>>)
    IN IF Len(more) > max_samples THEN Front(more) ELSE more

\* the sample appended by update() and set_current(), the oldest one dropped
\* beyond _max_samples
add_sample(samples, t, items) ==
    LET more == Append(samples, <<t, items>>)
    IN IF Len(more) > max_samples THEN Tail(more) ELSE more

\* the end of update() and set_current(): the rate limit
rate_limit_passes(tr) == clock - tr.last_update_time >= update_interval

\* A thread with no call in progress makes a call (the threads being
\* interchangeable, t1 makes the first one)
Call(t) ==
    /\ ~Busy(t)
    /\ calls < MaxCalls
    /\ calls = 0 => t = "t1"
    /\ calls' = calls + 1
    /\ \E prog \in Programs : threads' = [threads EXCEPT ![t].stack = prog]
    /\ UNCHANGED <<trackers, locks, clock>>
    /\ UNCHANGED <<evars, cvars, gvars, xvars>>

\* `with self._lock:` entered
Acquire(t) ==
    /\ Busy(t)
    /\ Next1(t).op = "acquire"
    /\ can_acquire(t, Next1(t).tr)
    /\ locks' = [locks EXCEPT ![Next1(t).tr] = [owner |-> t, count |-> @.count + 1]]
    /\ Step(t, <<>>)
    /\ UNCHANGED <<trackers, clock, calls>>
    /\ UNCHANGED <<evars, cvars, gvars, xvars>>

\* `with self._lock:` left; get_report() returns its report, which the
\* thread holds until the call it serves is over
Release(t) ==
    /\ Busy(t)
    /\ Next1(t).op = "release"
    /\ locks' = [locks EXCEPT ![Next1(t).tr] =
                    IF @.count <= 1 THEN [owner |-> NoThread, count |-> 0]
                    ELSE [@ EXCEPT !.count = @ - 1]]
    /\ threads' = [threads EXCEPT
          ![t] = [@ EXCEPT !.stack = Tail(@),
                           !.reports = IF Tail(threads[t].stack) = <<>> THEN <<>>
                                       ELSE IF Next1(t).msg = "report"
                                       THEN with_report(@, Next1(t).tr)
                                       ELSE @]]
    /\ UNCHANGED <<trackers, clock, calls>>
    /\ UNCHANGED <<evars, cvars, gvars, xvars>>

\* `if self._start_time is None: self.start()` of update() and set_current()
EnsureStarted(t) ==
    /\ Busy(t)
    /\ Next1(t).op = "ensure_started"
    /\ Step(t, IF trackers[Next1(t).tr].start_time = NoTime THEN start(Next1(t).tr) ELSE <<>>)
    /\ UNCHANGED <<trackers, locks, clock, calls>>
    /\ UNCHANGED <<evars, cvars, gvars, xvars>>

\* the body of start()
Start(t) ==
    /\ Busy(t)
    /\ Next1(t).op = "start"
    /\ LET X == Next1(t).tr
       IN IF start_returns_early(trackers[X])
          THEN /\ trackers' = [trackers EXCEPT ![X].restarted = TRUE]
               /\ Step(t, <<>>)
          ELSE /\ trackers' = [trackers EXCEPT ![X].start_time = clock,
                                               ![X].last_update_time = clock,
                                               ![X].throughput_samples = <<<<clock, 0>>>>]
               /\ Step(t, own_notify(X, notify_update(X)))
    /\ UNCHANGED <<locks, clock, calls>>
    /\ UNCHANGED <<evars, cvars, gvars, xvars>>

\* update(): self._current_item is read ...
UpdateRead(t) ==
    /\ Busy(t)
    /\ Next1(t).op = "update_read"
    /\ threads' = [threads EXCEPT ![t].stack = Tail(@),
                                  ![t].loaded = trackers[Next1(t).tr].current_item]
    /\ UNCHANGED <<trackers, locks, clock, calls>>
    /\ UNCHANGED <<evars, cvars, gvars, xvars>>

\* ... and written, the sample is appended, and the update is notified when
\* the rate limit allows
UpdateWrite(t) ==
    /\ Busy(t)
    /\ Next1(t).op = "update_write"
    /\ LET X == Next1(t).tr
           tr == trackers[X]
           cur == Min(threads[t].loaded + Next1(t).arg, total_items(X))
           notify == rate_limit_passes(tr)
       IN /\ trackers' = [trackers EXCEPT ![X] =
                [tr EXCEPT !.current_item = cur,
                           !.custom_message = IF Next1(t).msg # "" THEN Next1(t).msg ELSE @,
                           !.throughput_samples = add_sample(@, clock, cur),
                           !.last_update_time = IF notify THEN clock ELSE @,
                           !.n_updates = @ + 1,
                           !.updaters = @ \cup {t}]]
          /\ threads' = [threads EXCEPT
                ![t] = [@ EXCEPT !.stack = (IF notify THEN notify_update(X) ELSE <<>>)
                                           \o Tail(@),
                                 !.loaded = 0]]
    /\ UNCHANGED <<locks, clock, calls>>
    /\ UNCHANGED <<evars, cvars, gvars, xvars>>

\* the body of set_current()
SetCurrent(t) ==
    /\ Busy(t)
    /\ Next1(t).op = "set_current"
    /\ LET X == Next1(t).tr
           tr == trackers[X]
           cur == Min(Max(0, Next1(t).arg), total_items(X))
           notify == rate_limit_passes(tr)
       IN /\ trackers' = [trackers EXCEPT ![X] =
                [tr EXCEPT !.current_item = cur,
                           !.custom_message = IF Next1(t).msg # "" THEN Next1(t).msg ELSE @,
                           !.throughput_samples = add_sample(@, clock, cur),
                           !.last_update_time = IF notify THEN clock ELSE @,
                           !.touched = TRUE]]
          /\ Step(t, IF notify THEN notify_update(X) ELSE <<>>)
    /\ UNCHANGED <<locks, clock, calls>>
    /\ UNCHANGED <<evars, cvars, gvars, xvars>>

\* the body of finish()
FinishTracker(t) ==
    /\ Busy(t)
    /\ Next1(t).op = "finish"
    /\ LET X == Next1(t).tr
           tr == trackers[X]
       IN IF finish_returns_early(tr)
          THEN /\ trackers' = [trackers EXCEPT ![X].finishes = Append(@, Next1(t).msg)]
               /\ Step(t, <<>>)
          ELSE /\ trackers' = [trackers EXCEPT ![X] =
                     [tr EXCEPT !.current_item = total_items(X),
                                !.custom_message = Next1(t).msg,
                                !.is_finished = TRUE,
                                !.touched = TRUE,
                                !.finishes = Append(@, Next1(t).msg)]]
               /\ Step(t, own_notify(X, notify_update(X)))
    /\ UNCHANGED <<locks, clock, calls>>
    /\ UNCHANGED <<evars, cvars, gvars, xvars>>

\* the end of _notify_update(): the callback is invoked (mode CALLBACK), the
\* progress line is printed (mode CONSOLE), or nothing is done (mode SILENT)
Sink(t) ==
    /\ Busy(t)
    /\ Next1(t).op = "sink"
    /\ trackers' = [trackers EXCEPT
            ![Next1(t).tr] = [@ EXCEPT !.renders = @ + 1,
                                       !.unforced = IF Next1(t).msg = "own" THEN @
                                                    ELSE Append(@, clock)]]
    /\ Step(t, <<>>)
    /\ UNCHANGED <<locks, clock, calls>>
    /\ UNCHANGED <<evars, cvars, gvars, xvars>>

\* time passes
Tick ==
    /\ clock < LastTick
    /\ clock' = clock + 1
    /\ UNCHANGED <<trackers, locks, threads, calls>>
    /\ UNCHANGED <<evars, cvars, gvars, xvars>>

InitTracker ==
    /\ trackers = [X \in Trackers |-> NewTracker]
    /\ locks = [X \in Trackers |-> [owner |-> NoThread, count |-> 0]]
    /\ threads = [t \in Threads |-> [stack |-> <<>>, loaded |-> 0, reports |-> <<>>]]
    /\ clock = 0
    /\ calls = 0
    \* no extraction takes part in this specification
    /\ archive = Archive(FALSE, FALSE, <<>>, <<>>, FALSE, FALSE, 0, <<>>, FALSE, "none")
    /\ pc = "done"
    /\ interrupted = FALSE
    /\ temp_dirs = <<>>
    /\ dirs_created = {}
    /\ format_detected = "unset"
    /\ extraction_path = "unset"
    /\ metadata = NewMetadata
    /\ idx = 0
    /\ hashed = 0
    /\ events = <<>>
    /\ links = <<>>
    /\ writes = {}
    /\ result = <<>>
    /\ outcomes = <<>>
    /\ observed = FALSE
    \* no comparison takes part in this specification
    /\ source_files = <<>>
    /\ target_files = <<>>
    /\ comparison_mode = "full"
    /\ roots_exist = <<FALSE, FALSE>>
    /\ cpc = "done"
    /\ future_to_path = {}
    /\ comparison = <<>>
    /\ completion_order = <<>>
    /\ counted_as = <<>>
    /\ max_workers = default_max_workers
    /\ tasks = <<>>
    \* no engine instance takes part in this specification
    /\ engines = <<>>
    /\ handler = "default"
    /\ disk = {}
    /\ workers = <<>>
    /\ created = <<>>
    /\ attempted = {}
    \* no further call, no tracker object and no monitor
    /\ earlier = <<>>
    /\ objects = <<>>
    /\ bubbled = <<>>
    /\ update_thread = 0
    /\ stop_event = FALSE
    /\ loops = <<>>
    /\ callers = <<>>
    /\ monitoring = FALSE
    /\ monitor_calls = 0

NextTracker ==
    \/ \E t \in Threads : Call(t)
    \/ \E t \in Threads : Acquire(t)
    \/ \E t \in Threads : Release(t)
    \/ \E t \in Threads : EnsureStarted(t)
    \/ \E t \in Threads : Start(t)
    \/ \E t \in Threads : UpdateRead(t)
    \/ \E t \in Threads : UpdateWrite(t)
    \/ \E t \in Threads : SetCurrent(t)
    \/ \E t \in Threads : FinishTracker(t)
    \/ \E t \in Threads : Sink(t)
    \/ Tick

SpecTracker == InitTracker /\ [][NextTracker]_vars

\* ------------------------------------------------------------------------
\* The same trackers called from one thread, with increments and positions
\* below zero, inside the range and beyond the total
\* ------------------------------------------------------------------------
Increments == {-1, 1, 3}
Positions == {-1, 0, 3}

SeqPrograms ==
    {start(X) : X \in {"P", "A"}}
    \cup {update(X, d, "") : X \in {"P", "A"}, d \in Increments}
    \cup {set_current(X, v, "") : X \in {"P", "A"}, v \in Positions}
    \cup {finish(X, "Complete") : X \in {"P", "A"}}

CallSeq(t) ==
    /\ ~Busy(t)
    /\ calls < MaxSeqCalls
    /\ calls' = calls + 1
    /\ \E prog \in SeqPrograms : threads' = [threads EXCEPT ![t].stack = prog]
    /\ UNCHANGED <<trackers, locks, clock>>
    /\ UNCHANGED <<evars, cvars, gvars, xvars>>

NextTrackerSeq ==
    \/ CallSeq("t1")
    \/ Acquire("t1")
    \/ Release("t1")
    \/ EnsureStarted("t1")
    \/ Start("t1")
    \/ UpdateRead("t1")
    \/ UpdateWrite("t1")
    \/ SetCurrent("t1")
    \/ FinishTracker("t1")
    \/ Sink("t1")
    \/ Tick

SpecTrackerSeq == InitTracker /\ [][NextTrackerSeq]_vars

\* ------------------------------------------------------------------------
\* One thread calling into other trees of trackers: a chain "P" - "A" - "G"
\* (SpecTrackerChain), and "P" - "A" with enough update() and set_current()
\* calls on "A" to fill the sample buffer (SpecTrackerLong)
\* ------------------------------------------------------------------------
MaxLongCalls == 11    \* calls made on the tracker by the one thread of SpecTrackerLong

\* the trackers S constructed, none started, and the one thread idle
InitTrackersOf(S) ==
    /\ trackers = [X \in S |-> NewTracker]
    /\ locks = [X \in S |-> [owner |-> NoThread, count |-> 0]]
    /\ threads = [t \in {"t1"} |-> [stack |-> <<>>, loaded |-> 0, reports |-> <<>>]]
    /\ clock = 0
    /\ calls = 0
    \* no extraction takes part in this specification
    /\ archive = Archive(FALSE, FALSE, <<>>, <<>>, FALSE, FALSE, 0, <<>>, FALSE, "none")
    /\ pc = "done"
    /\ interrupted = FALSE
    /\ temp_dirs = <<>>
    /\ dirs_created = {}
    /\ format_detected = "unset"
    /\ extraction_path = "unset"
    /\ metadata = NewMetadata
    /\ idx = 0
    /\ hashed = 0
    /\ events = <<>>
    /\ links = <<>>
    /\ writes = {}
    /\ result = <<>>
    /\ outcomes = <<>>
    /\ observed = FALSE
    \* no comparison takes part in this specification
    /\ source_files = <<>>
    /\ target_files = <<>>
    /\ comparison_mode = "full"
    /\ roots_exist = <<FALSE, FALSE>>
    /\ cpc = "done"
    /\ future_to_path = {}
    /\ comparison = <<>>
    /\ completion_order = <<>>
    /\ counted_as = <<>>
    /\ max_workers = default_max_workers
    /\ tasks = <<>>
    \* no engine instance takes part in this specification
    /\ engines = <<>>
    /\ handler = "default"
    /\ disk = {}
    /\ workers = <<>>
    /\ created = <<>>
    /\ attempted = {}
    \* no further call, no tracker object and no monitor
    /\ earlier = <<>>
    /\ objects = <<>>
    /\ bubbled = <<>>
    /\ update_thread = 0
    /\ stop_event = FALSE
    /\ loops = <<>>
    /\ callers = <<>>
    /\ monitoring = FALSE
    /\ monitor_calls = 0

InitTrackerChain == InitTrackersOf({"P", "A", "G"})
InitTrackerLong == InitTrackersOf({"P", "A"})

ChainPrograms ==
    {start(X) : X \in {"A", "G"}}
    \cup {update(X, 1, "") : X \in {"A", "G"}}
    \cup {set_current(X, 1, "") : X \in {"A", "G"}}
    \cup {finish(X, "Complete") : X \in {"A", "G"}}

CallChain(t) ==
    /\ ~Busy(t)
    /\ calls < MaxSeqCalls
    /\ calls' = calls + 1
    /\ \E prog \in ChainPrograms : threads' = [threads EXCEPT ![t].stack = prog]
    /\ UNCHANGED <<trackers, locks, clock>>
    /\ UNCHANGED <<evars, cvars, gvars, xvars>>

NextTrackerChain ==
    \/ CallChain("t1")
    \/ Acquire("t1")
    \/ Release("t1")
    \/ EnsureStarted("t1")
    \/ Start("t1")
    \/ UpdateRead("t1")
    \/ UpdateWrite("t1")
    \/ SetCurrent("t1")
    \/ FinishTracker("t1")
    \/ Sink("t1")
    \/ Tick

SpecTrackerChain == InitTrackerChain /\ [][NextTrackerChain]_vars

LongPrograms == {update("A", 1, ""), set_current("A", 0, "")}

CallLong(t) ==
    /\ ~Busy(t)
    /\ calls < MaxLongCalls
    /\ calls' = calls + 1
    /\ \E prog \in LongPrograms : threads' = [threads EXCEPT ![t].stack = prog]
    /\ UNCHANGED <<trackers, locks, clock>>
    /\ UNCHANGED <<evars, cvars, gvars, xvars>>

NextTrackerLong ==
    \/ CallLong("t1")
    \/ Acquire("t1")
    \/ Release("t1")
    \/ EnsureStarted("t1")
    \/ Start("t1")
    \/ UpdateRead("t1")
    \/ UpdateWrite("t1")
    \/ SetCurrent("t1")
    \/ Sink("t1")
    \/ Tick

SpecTrackerLong == InitTrackerLong /\ [][NextTrackerLong]_vars

\* ------------------------------------------------------------------------
\* Idle values of the state of the three engines and of the trackers, for
\* the specifications below, in which none of them takes part
\* ------------------------------------------------------------------------
NoExtraction ==
    /\ archive = Archive(FALSE, FALSE, <<>>, <<>>, FALSE, FALSE, 0, <<>>, FALSE, "none")
    /\ pc = "done"
    /\ interrupted = FALSE
    /\ temp_dirs = <<>>
    /\ dirs_created = {}
    /\ format_detected = "unset"
    /\ extraction_path = "unset"
    /\ metadata = NewMetadata
    /\ idx = 0
    /\ hashed = 0
    /\ events = <<>>
    /\ links = <<>>
    /\ writes = {}
    /\ result = <<>>
    /\ outcomes = <<>>
    /\ observed = FALSE
    /\ earlier = <<>>
    /\ engines = <<>>
    /\ handler = "default"
    /\ disk = {}
    /\ workers = <<>>
    /\ created = <<>>
    /\ attempted = {}

NoComparison ==
    /\ source_files = <<>>
    /\ target_files = <<>>
    /\ comparison_mode = "full"
    /\ roots_exist = <<FALSE, FALSE>>
    /\ cpc = "done"
    /\ future_to_path = {}
    /\ comparison = <<>>
    /\ completion_order = <<>>
    /\ counted_as = <<>>
    /\ max_workers = default_max_workers
    /\ tasks = <<>>

NoTrackerCalls ==
    /\ trackers = <<>>
    /\ locks = <<>>
    /\ threads = <<>>
    /\ clock = 0
    /\ calls = 0

NoMonitor ==
    /\ update_thread = 0
    /\ stop_event = FALSE
    /\ loops = <<>>
    /\ callers = <<>>
    /\ monitoring = FALSE
    /\ monitor_calls = 0

\* ------------------------------------------------------------------------
\* The tree of ProgressTracker objects as add_sub_operation builds it
\* (SpecTree): one root tracker, and sub-trackers added to any tracker under
\* one of two sub_ids, the same sub_id more than once included. The objects
\* are numbered in the order of their construction.
\* ------------------------------------------------------------------------
MaxTrackers == 4      \* tracker objects constructed, the root included
SubIds == {"x", "y"}
NoParent == 0

\* a ProgressTracker as its constructor leaves it
NewObject == [parent_tracker |-> NoParent, sub_trackers |-> <<>>]

\* add_sub_operation(sub_id, total_items) on the tracker p
AddSubOperation(p, sub_id) ==
    /\ Len(objects) < MaxTrackers
    /\ LET sub_tracker == Len(objects) + 1
           subs == objects[p].sub_trackers
       IN objects' = Append([objects EXCEPT ![p].sub_trackers =
                                [s \in DOMAIN subs \cup {sub_id} |->
                                    IF s = sub_id THEN sub_tracker ELSE subs[s]]],
                            [NewObject EXCEPT !.parent_tracker = p])
    /\ UNCHANGED bubbled
    /\ UNCHANGED <<evars, tvars, cvars, gvars, earlier, mvars>>

\* the trackers whose reports get_report() of the tracker X returns: its own
\* and, nested in it, those of self._sub_trackers.values()
RECURSIVE reported_by(_)
reported_by(X) ==
    {X} \cup UNION {reported_by(objects[X].sub_trackers[s]) :
                        s \in DOMAIN objects[X].sub_trackers}

\* the trackers whose _notify_update() runs when that of X does: X, then its
\* _parent_tracker, and so on to the root
RECURSIVE notified_by(_)
notified_by(X) ==
    IF objects[X].parent_tracker = NoParent THEN <<X>>
    ELSE <<X>> \o notified_by(objects[X].parent_tracker)

\* _notify_update() of the tracker X, as its start(), update() or finish()
\* calls it: each tracker of the chain builds its report
NotifyUpdate(X) ==
    /\ bubbled' = [from |-> X,
                   reports |-> [k \in DOMAIN notified_by(X) |->
                                   [of |-> notified_by(X)[k],
                                    shows |-> reported_by(notified_by(X)[k])]]]
    /\ UNCHANGED objects
    /\ UNCHANGED <<evars, tvars, cvars, gvars, earlier, mvars>>

InitTree ==
    /\ objects = <<NewObject>>
    /\ bubbled = <<>>
    /\ NoExtraction
    /\ NoComparison
    /\ NoTrackerCalls
    /\ NoMonitor

NextTree ==
    \/ \E p \in DOMAIN objects, sub_id \in SubIds : AddSubOperation(p, sub_id)
    \/ \E X \in DOMAIN objects : NotifyUpdate(X)

SpecTree == InitTree /\ [][NextTree]_vars

\* ------------------------------------------------------------------------
\* MultiProgressTracker: start_monitoring and stop_monitoring called from
\* two threads, and the threads that run _monitor_loop (SpecMonitor). The
\* loop threads are numbered in the order of their construction.
\* ------------------------------------------------------------------------
MaxMonitorCalls == 3  \* start_monitoring and stop_monitoring calls, over all threads
MonitorCallers == {"c1", "c2"}
NoLoop == 0

\* Thread.is_alive(): started and not yet returned from _monitor_loop
is_alive(th) == loops[th] \in {"waiting", "reporting"}

\* a caller: its position in the call, and (history) whether its call
\* overlaps a stop_monitoring call of another thread
Caller(at, stopped) == [at |-> at, stopped |-> stopped]

\* a stop_monitoring call is waiting in join()
Joining == \E d \in MonitorCallers : callers[d].at = "join"

\* the caller c is at the position from of its call and moves to the position to
Goto(c, from, to) ==
    /\ callers[c].at = from
    /\ callers' = [callers EXCEPT ![c] = Caller(to, IF from = "idle" THEN Joining ELSE @.stopped)]

\* start_monitoring is entered: `if self._update_thread and
\* self._update_thread.is_alive(): return`
StartCheck(c) ==
    /\ monitor_calls < MaxMonitorCalls
    /\ monitor_calls' = monitor_calls + 1
    /\ IF update_thread # NoLoop /\ is_alive(update_thread)
       THEN Goto(c, "idle", "idle") /\ monitoring' = (monitoring \/ ~Joining)
       ELSE Goto(c, "idle", "clear") /\ UNCHANGED monitoring
    /\ UNCHANGED <<update_thread, stop_event, loops>>
    /\ UNCHANGED <<evars, tvars, cvars, gvars, earlier, ovars>>

\* self._stop_event.clear()
StartClear(c) ==
    /\ Goto(c, "clear", "assign")
    /\ stop_event' = FALSE
    /\ UNCHANGED <<update_thread, loops, monitoring, monitor_calls>>
    /\ UNCHANGED <<evars, tvars, cvars, gvars, earlier, ovars>>

\* self._update_thread = threading.Thread(target=self._monitor_loop, ...)
StartAssign(c) ==
    /\ Goto(c, "assign", "start")
    /\ loops' = Append(loops, "created")
    /\ update_thread' = Len(loops) + 1
    /\ UNCHANGED <<stop_event, monitoring, monitor_calls>>
    /\ UNCHANGED <<evars, tvars, cvars, gvars, earlier, ovars>>

\* self._update_thread.start(), on the thread the field holds by now: it
\* raises RuntimeError when that thread was started already; otherwise
\* start_monitoring returns
StartThread(c) ==
    /\ Goto(c, "start", "idle")
    /\ IF loops[update_thread] = "created"
       THEN /\ loops' = [loops EXCEPT ![update_thread] = "waiting"]
            /\ monitoring' = (monitoring \/ ~callers[c].stopped)
       ELSE UNCHANGED <<loops, monitoring>>
    /\ UNCHANGED <<update_thread, stop_event, monitor_calls>>
    /\ UNCHANGED <<evars, tvars, cvars, gvars, earlier, ovars>>

\* stop_monitoring is entered: self._stop_event.set()
StopSet(c) ==
    /\ monitor_calls < MaxMonitorCalls
    /\ monitor_calls' = monitor_calls + 1
    /\ stop_event' = TRUE
    /\ monitoring' = FALSE
    /\ callers[c].at = "idle"
    /\ callers' = [d \in MonitorCallers |->
                        IF d = c THEN Caller(IF update_thread = NoLoop THEN "idle" ELSE "join", FALSE)
                        ELSE Caller(callers[d].at, TRUE)]
    /\ UNCHANGED <<update_thread, loops>>
    /\ UNCHANGED <<evars, tvars, cvars, gvars, earlier, ovars>>

\* self._update_thread.join(timeout=1.0) returns: the thread has exited, or
\* it is busy in the callbacks for longer than the timeout, or it was never
\* started and join raises RuntimeError
StopJoin(c) ==
    /\ Goto(c, "join", "idle")
    /\ loops[update_thread] \in {"exited", "reporting", "created"}
    /\ UNCHANGED <<update_thread, stop_event, loops, monitoring, monitor_calls>>
    /\ UNCHANGED <<evars, tvars, cvars, gvars, earlier, ovars>>

\* `while not self._stop_event.wait(self.update_interval):` the wait ends,
\* by the event or by the timeout
LoopWait(th) ==
    /\ loops[th] = "waiting"
    /\ loops' = [loops EXCEPT ![th] = IF stop_event THEN "exited" ELSE "reporting"]
    /\ UNCHANGED <<update_thread, stop_event, callers, monitoring, monitor_calls>>
    /\ UNCHANGED <<evars, tvars, cvars, gvars, earlier, ovars>>

\* the body of the loop: the consolidated report is built and handed to the
\* callbacks
LoopReport(th) ==
    /\ loops[th] = "reporting"
    /\ loops' = [loops EXCEPT ![th] = "waiting"]
    /\ UNCHANGED <<update_thread, stop_event, callers, monitoring, monitor_calls>>
    /\ UNCHANGED <<evars, tvars, cvars, gvars, earlier, ovars>>

InitMonitor ==
    /\ update_thread = NoLoop
    /\ stop_event = FALSE
    /\ loops = <<>>
    /\ callers = [c \in MonitorCallers |-> Caller("idle", FALSE)]
    /\ monitoring = FALSE
    /\ monitor_calls = 0
    /\ objects = <<>>
    /\ bubbled = <<>>
    /\ NoExtraction
    /\ NoComparison
    /\ NoTrackerCalls

NextMonitor ==
    \/ \E c \in MonitorCallers :
            \/ StartCheck(c)
            \/ StartClear(c)
            \/ StartAssign(c)
            \/ StartThread(c)
            \/ StopSet(c)
            \/ StopJoin(c)
    \/ \E th \in DOMAIN loops : LoopWait(th) \/ LoopReport(th)

SpecMonitor == InitMonitor /\ [][NextMonitor]_vars

\* ------------------------------------------------------------------------
\* Claims about the progress tracker (checked under SpecTracker)
\* ------------------------------------------------------------------------
AllIdle == \A t \in Threads : ~Busy(t)

\* thread t waits for a lock that thread u holds
WaitsFor(t, u) ==
    /\ u # t
    /\ Busy(t)
    /\ Next1(t).op = "acquire"
    /\ locks[Next1(t).tr].owner = u

\* C7: the tracker tree is deadlock-free: no state is reachable in which two
\* threads each hold one tracker's lock and wait for the lock the other holds.
C7_NoDeadlock == ~(\E t, u \in Threads : WaitsFor(t, u) /\ WaitsFor(u, t))

\* C8: increments are never lost: on a tracker that only received update(1)
\* calls, from whatever threads and in whatever interleaving, current equals
\* min(number of increments applied, total), and each call appended exactly
\* one throughput sample after the one start() left (at most 10 are kept).
C8_NoLostUpdate ==
    \A X \in Trackers :
        LET tr == trackers[X]
        IN ~tr.touched
            => /\ tr.current_item = Min(tr.n_updates, total_items(X))
               /\ tr.n_updates > 0
                    => Len(tr.throughput_samples) = Min(tr.n_updates + 1, max_samples)

\* C8 witness: both threads have called update(1) on the sub-tracker A, and
\* both calls have returned: current is 2, three samples are kept.
C8_Witness ==
    /\ AllIdle
    /\ trackers["A"].updaters = Threads
    /\ trackers["A"].n_updates = 2
    /\ trackers["A"].current_item = 2
    /\ Len(trackers["A"].throughput_samples) = 3

Lifecycle(tr) ==
    IF tr.is_finished THEN "finished"
    ELSE IF tr.start_time = NoTime THEN "not-started"
    ELSE "running"

\* C9: every tracker moves only along not-started -> running -> finished:
\* finished is reached from running only, and a finished tracker is never
\* started (again) nor returned to an earlier state.
C9_Step ==
    \A X \in Trackers :
        LET before == Lifecycle(trackers[X])
            after == Lifecycle(trackers'[X])
        IN /\ before # after
                => <<before, after>> \in {<<"not-started", "running">>, <<"running", "finished">>}
           /\ trackers[X].is_finished => trackers'[X].start_time = trackers[X].start_time

C9_LifecycleOrder == [][C9_Step]_vars

\* the fields of a tracker, without the history of the start() and finish()
\* calls
Fields(tr) == [tr EXCEPT !.finishes = <<>>, !.restarted = FALSE]

\* C10: finish() is idempotent: the finish() that finds the tracker unfinished
\* sets current = total, its message and the finished flag; a finish() on a
\* finished tracker, whatever its message, changes no field of any tracker,
\* notifies nothing and invokes no sink, so two calls leave what one leaves.
C10_Step ==
    \A t \in Threads :
        (Busy(t) /\ Next1(t).op = "finish" /\ threads'[t] # threads[t])
            => LET X == Next1(t).tr
               IN IF trackers[X].is_finished
                  THEN /\ \A Y \in Trackers : Fields(trackers'[Y]) = Fields(trackers[Y])
                       /\ threads'[t].stack = Tail(threads[t].stack)
                       /\ Head(threads'[t].stack) = I("release", X, 0, "")
                  ELSE /\ trackers'[X].current_item = total_items(X)
                       /\ trackers'[X].custom_message = Next1(t).msg
                       /\ trackers'[X].is_finished

C10_FinishIdempotent == [][C10_Step]_vars

\* C10 witness: finish("Complete") then finish("Done") on the parent tracker
\* have both returned: current = total, the message is the first one, and only
\* the first call reached the sink.
C10_Witness ==
    /\ AllIdle
    /\ trackers["P"].finishes = <<"Complete", "Done">>
    /\ trackers["P"].is_finished
    /\ trackers["P"].current_item = total_items("P")
    /\ trackers["P"].custom_message = "Complete"
    /\ trackers["P"].renders = 1

\* C11: start() is idempotent: a start() on a tracker that was started before,
\* by start() or by the start() inside update() and set_current(), changes no
\* field of any tracker (start time, last-render time, samples and current
\* among them), notifies nothing and invokes no sink.
C11_Step ==
    \A t \in Threads :
        (Busy(t) /\ Next1(t).op = "start" /\ threads'[t] # threads[t]
         /\ trackers[Next1(t).tr].start_time # NoTime)
            => /\ \A Y \in Trackers : Fields(trackers'[Y]) = Fields(trackers[Y])
               /\ threads'[t].stack = Tail(threads[t].stack)
               /\ Head(threads'[t].stack) = I("release", Next1(t).tr, 0, "")

C11_StartIdempotent == [][C11_Step]_vars

\* C11 witness: the sub-tracker A was started by update(1) at time 0, and a
\* start() made one interval later has returned: the start time, the
\* last-render time and the samples are those of time 0.
C11_Witness ==
    /\ AllIdle
    /\ clock = 1
    /\ trackers["A"].restarted
    /\ trackers["A"].n_updates = 1
    /\ trackers["A"].start_time = 0
    /\ trackers["A"].last_update_time = 0
    /\ trackers["A"].throughput_samples = <<<<0, 0>>, <<0, 1>>>>
    /\ trackers["A"].current_item = 1

\* C12: clamping: the step of update(d) that writes current sets it to
\* min(current + d, total), so to at most total; set_current(v) sets it to
\* min(max(0, v), total), so into [0, total]; for d and v below zero, in range
\* and beyond the total.
C12_Step ==
    \A t \in Threads :
        (Busy(t) /\ threads'[t] # threads[t])
            => LET X == Next1(t).tr
                   total == total_items(X)
                   before == trackers[X].current_item
                   after == trackers'[X].current_item
                   sum == before + Next1(t).arg
                   floored == IF Next1(t).arg < 0 THEN 0 ELSE Next1(t).arg
               IN /\ Next1(t).op = "update_write"
                    => /\ after = (IF sum < total THEN sum ELSE total)
                       /\ after <= total
                  /\ Next1(t).op = "set_current"
                    => /\ after = (IF floored < total THEN floored ELSE total)
                       /\ 0 <= after /\ after <= total

C12_Clamping == [][C12_Step]_vars

\* C12 witness: update(3) on the fresh sub-tracker A (total 2) has left
\* current = 2, and set_current(3) on the parent P (total 1) has left
\* current = 1.
C12_Witness ==
    /\ AllIdle
    /\ trackers["A"].n_updates = 1 /\ ~trackers["A"].touched
    /\ trackers["A"].current_item = 2
    /\ trackers["P"].n_updates = 0 /\ trackers["P"].touched
    /\ ~trackers["P"].is_finished
    /\ trackers["P"].current_item = 1

\* two sink invocations are at least one update_interval apart
Spaced(times) ==
    \A i, j \in DOMAIN times : i < j => times[j] - times[i] >= update_interval

\* C13: render rate limit: apart from the renders of a tracker's own first
\* start() and first finish(), the sink of every tracker, with or without
\* sub-trackers, is invoked at most once per update_interval.
C13_RenderRateLimit == \A X \in Trackers : Spaced(trackers[X].unforced)

\* ------------------------------------------------------------------------
\* ComparisonEngine: one content_comparison(source, target, mode) call of an
\* engine with the default configuration (no exclusion pattern, symlinks not
\* followed, case-sensitive keys). source_files and target_files are what
\* collect_files returns for the two roots; the files do not change during
\* the call.
\* ------------------------------------------------------------------------
PathNames == <<"a", "b", "c", "d">>
Paths == {PathNames[i] : i \in 1..MaxPaths}

Modes == {"quick", "full", "metadata_only", "checksum_only"}

\* a collected path: kind, content (of a regular file), permission bits,
\* modification time in seconds, and whether open() succeeds on it
File(kind, content, perm, mtime, readable) ==
    [kind |-> kind, content |-> content, perm |-> perm, mtime |-> mtime,
     readable |-> readable]

SourcePool ==
    {File("file", "hello", 644, 0, TRUE),
     File("dir", "", 755, 0, TRUE),
     File("file", "hello", 644, 0, FALSE)}

TargetPool ==
    {File("file", "hello", 644, 0, TRUE),     \* the source's file, restored
     File("file", "world", 644, 1, TRUE),     \* content differs, the rest equal or within tolerance
     File("file", "hi", 600, 2, TRUE),        \* size, content, permissions and time differ
     File("dir", "", 755, 0, TRUE),
     File("file", "data", 755, 0, TRUE),      \* a file of the size of a directory
     File("file", "hello", 644, 0, FALSE)}    \* cannot be opened

Trees(pool) == UNION {[D -> pool] : D \in SUBSET Paths}

\* stat().st_size
st_size(f) ==
    IF f.kind = "dir" THEN 4
    ELSE CASE f.content = "hello" -> 5
           [] f.content = "world" -> 5
           [] f.content = "data" -> 4
           [] OTHER -> 2

\* Faulty variant of calculate_checksum: a digest of the length only
calculate_checksum_of_size(f) == <<"sha256", st_size(f)>>

\* calculate_checksum(): the SHA-256 of the content (no two contents of the
\* model collide)
calculate_checksum(f) == <<"sha256", f.content>>

\* get_file_metadata(): raises when the checksum is asked for and the file
\* cannot be read
get_file_metadata(f, include_checksum) ==
    LET wanted == include_checksum /\ f.kind = "file"
    IN [raised |-> wanted /\ ~f.readable,
        size |-> st_size(f),
        mtime |-> f.mtime,
        mode |-> <<f.kind, f.perm>>,
        is_file |-> f.kind = "file",
        is_dir |-> f.kind = "dir",
        checksum |-> IF wanted /\ f.readable THEN calculate_checksum(f) ELSE None]

\* a FileDifference: its path field (the source file's own path for the
\* differences compare_metadata finds, the relative path otherwise), and the
\* relative path it was produced for
FileDifference(path, rel, type) == [path |-> path, rel |-> rel, difference_type |-> type]

Abs(x) == IF x < 0 THEN -x ELSE x

\* stat.S_IMODE(): the permission bits of st_mode, without the file type
S_IMODE(m) == m[2]

\* Faulty variant of type_mismatch: whatever is not a regular file mismatches
type_mismatch_unless_files(sm, tm) == ~sm.is_file \/ ~tm.is_file

\* compare_metadata(): the type check
type_mismatch(sm, tm) == sm.is_file # tm.is_file \/ sm.is_dir # tm.is_dir

\* Faulty variant of timestamp_differs: no tolerance, a difference of one
\* second already counts
timestamp_differs_at_one(sm, tm) == Abs(sm.mtime - tm.mtime) >= 1

\* compare_metadata(): the timestamp check, with its 1-second tolerance
timestamp_differs(sm, tm) == Abs(sm.mtime - tm.mtime) > 1

\* Faulty variant of compare_metadata: no return after the type mismatch
compare_metadata_no_return(rel, sm, tm, md) ==
    LET d(type) == <<FileDifference(<<"source", rel>>, rel, type)>>
    IN (IF type_mismatch(sm, tm) THEN d("type_mismatch") ELSE <<>>)
       \o (IF sm.size # tm.size THEN d("size_mismatch") ELSE <<>>)
       \o (IF /\ md \in {"full", "checksum_only"}
              /\ sm.is_file /\ tm.is_file
              /\ sm.checksum # None /\ tm.checksum # None
              /\ sm.checksum # tm.checksum
           THEN d("content_mismatch") ELSE <<>>)
       \o (IF md = "full" /\ S_IMODE(sm.mode) # S_IMODE(tm.mode)
           THEN d("permission_mismatch") ELSE <<>>)
       \o (IF md = "full" /\ timestamp_differs(sm, tm)
           THEN d("timestamp_mismatch") ELSE <<>>)

compare_metadata(rel, sm, tm, md) ==
    LET d(type) == <<FileDifference(<<"source", rel>>, rel, type)>>
    IN IF type_mismatch(sm, tm) THEN d("type_mismatch")
       ELSE (IF sm.size # tm.size THEN d("size_mismatch") ELSE <<>>)
            \o (IF /\ md \in {"full", "checksum_only"}
                   /\ sm.is_file /\ tm.is_file
                   /\ sm.checksum # None /\ tm.checksum # None
                   /\ sm.checksum # tm.checksum
                THEN d("content_mismatch") ELSE <<>>)
            \o (IF md = "full" /\ S_IMODE(sm.mode) # S_IMODE(tm.mode)
                THEN d("permission_mismatch") ELSE <<>>)
            \o (IF md = "full" /\ timestamp_differs(sm, tm)
                THEN d("timestamp_mismatch") ELSE <<>>)

\* Faulty variant of compare_file_pair: the checksums are computed in every
\* mode
compare_file_pair_with_checksum(rel, sf, tf, md) ==
    LET sm == get_file_metadata(sf, TRUE)
        tm == get_file_metadata(tf, TRUE)
    IN IF sm.raised \/ tm.raised
       THEN [differences |-> <<FileDifference(<<rel>>, rel, "content_mismatch")>>,
             bytes_processed |-> 0]
       ELSE [differences |-> IF md # "quick" \/ sm.size # tm.size
                             THEN compare_metadata(rel, sm, tm, md) ELSE <<>>,
             bytes_processed |-> sm.size]

\* compare_file_pair(): what the worker task returns
compare_file_pair(rel, sf, tf, md) ==
    LET include_checksum == md \in {"full", "checksum_only"}
        sm == get_file_metadata(sf, include_checksum)
        tm == get_file_metadata(tf, include_checksum)
    IN IF sm.raised \/ tm.raised
       THEN [differences |-> <<FileDifference(<<rel>>, rel, "content_mismatch")>>,
             bytes_processed |-> 0]
       ELSE [differences |-> IF md # "quick" \/ sm.size # tm.size
                             THEN compare_metadata(rel, sm, tm, md) ELSE <<>>,
             bytes_processed |-> sm.size]

NewComparisonResult ==
    [total_files_processed |-> 0, total_directories_processed |-> 0,
     files_identical |-> 0, files_different |-> 0,
     files_missing_source |-> 0, files_missing_target |-> 0,
     differences |-> <<>>, total_bytes_processed |-> 0, errors |-> <<>>]

all_paths == DOMAIN source_files \cup DOMAIN target_files
common_paths == DOMAIN source_files \cap DOMAIN target_files

\* Faulty variant of missing_in_target: the target's keys are not taken away
missing_in_target_all == DOMAIN source_files

missing_in_target == DOMAIN source_files \ DOMAIN target_files
missing_in_source == DOMAIN target_files \ DOMAIN source_files

\* the relative paths a difference of that type was appended for
Reported(type) ==
    {comparison.differences[i].rel :
        i \in {j \in DOMAIN comparison.differences :
                    comparison.differences[j].difference_type = type}}

\* Faulty variant of aggregate: the bytes of the last pair replace the sum
aggregate_last_bytes(res, out) ==
    [res EXCEPT !.differences = @ \o out.differences,
                !.total_bytes_processed = out.bytes_processed,
                !.files_different = IF out.differences # <<>> THEN @ + 1 ELSE @,
                !.files_identical = IF out.differences # <<>> THEN @ ELSE @ + 1]

\* Faulty variant of aggregate: files_different counts difference records
aggregate_per_record(res, out) ==
    [res EXCEPT !.differences = @ \o out.differences,
                !.total_bytes_processed = @ + out.bytes_processed,
                !.files_different = @ + Len(out.differences),
                !.files_identical = IF out.differences # <<>> THEN @ ELSE @ + 1]

\* the body of the as_completed loop for one task's return value
aggregate(res, out) ==
    [res EXCEPT !.differences = @ \o out.differences,
                !.total_bytes_processed = @ + out.bytes_processed,
                !.files_different = IF out.differences # <<>> THEN @ + 1 ELSE @,
                !.files_identical = IF out.differences # <<>> THEN @ ELSE @ + 1]

\* Faulty variant of success_rate: no guard for an empty comparison
success_rate_unguarded(res) == <<res.files_identical * 100, res.total_files_processed>>

\* ComparisonResult.success_rate, as the fraction <<numerator, denominator>>
\* (<<n, 0>> stands for the ZeroDivisionError)
success_rate(res) ==
    IF res.total_files_processed = 0 THEN <<100, 1>>
    ELSE <<res.files_identical * 100, res.total_files_processed>>

\* ComparisonResult.has_differences
has_differences(res) == Len(res.differences) > 0

\* the exit code of the command-line wrapper:
\* sys.exit(0 if not result.has_differences else 1)
exit_code(res) == IF ~has_differences(res) THEN 0 ELSE 1

\* the roots are validated; a missing root fails the whole comparison
Validate ==
    /\ cpc = "start"
    /\ IF roots_exist[1] /\ roots_exist[2]
       THEN cpc' = "missing_target" /\ UNCHANGED comparison
       ELSE /\ comparison' = [comparison EXCEPT !.errors = Append(@, <<"Comparison failed">>)]
            /\ cpc' = "done"
    /\ UNCHANGED <<source_files, target_files, comparison_mode, roots_exist,
                   future_to_path, completion_order, counted_as,
                   max_workers, tasks>>
    /\ UNCHANGED <<evars, tvars, gvars, xvars>>

\* `for path in missing_in_target:`, one iteration, in the order the set
\* yields its elements, or the end of the loop
ReportMissingTarget ==
    /\ cpc = "missing_target"
    /\ LET todo == missing_in_target \ Reported("missing_target")
       IN IF todo = {}
          THEN cpc' = "missing_source" /\ UNCHANGED comparison
          ELSE \E path \in todo :
                /\ comparison' = [comparison EXCEPT
                        !.differences = Append(@, FileDifference(<<path>>, path, "missing_target")),
                        !.files_missing_target = @ + 1]
                /\ UNCHANGED cpc
    /\ UNCHANGED <<source_files, target_files, comparison_mode, roots_exist,
                   future_to_path, completion_order, counted_as,
                   max_workers, tasks>>
    /\ UNCHANGED <<evars, tvars, gvars, xvars>>

\* `for path in missing_in_source:`
ReportMissingSource ==
    /\ cpc = "missing_source"
    /\ LET todo == missing_in_source \ Reported("missing_source")
       IN IF todo = {}
          THEN cpc' = "submit" /\ UNCHANGED comparison
          ELSE \E path \in todo :
                /\ comparison' = [comparison EXCEPT
                        !.differences = Append(@, FileDifference(<<path>>, path, "missing_source")),
                        !.files_missing_source = @ + 1]
                /\ UNCHANGED cpc
    /\ UNCHANGED <<source_files, target_files, comparison_mode, roots_exist,
                   future_to_path, completion_order, counted_as,
                   max_workers, tasks>>
    /\ UNCHANGED <<evars, tvars, gvars, xvars>>

\* one task per common path is submitted to the pool
Submit ==
    /\ cpc = "submit"
    /\ future_to_path' = common_paths
    /\ cpc' = "collect"
    /\ UNCHANGED <<source_files, target_files, comparison_mode, roots_exist,
                   comparison, completion_order, counted_as, max_workers, tasks>>
    /\ UNCHANGED <<evars, tvars, gvars, xvars>>

\* as_completed yields the future of some finished task, and its return
\* value is added to the result
Complete ==
    /\ cpc = "collect"
    /\ \E relative_path \in future_to_path :
        LET out == compare_file_pair(relative_path, source_files[relative_path],
                                     target_files[relative_path], comparison_mode)
        IN /\ comparison' = aggregate(comparison, out)
           /\ future_to_path' = future_to_path \ {relative_path}
           /\ completion_order' = Append(completion_order, relative_path)
           /\ counted_as' = [q \in DOMAIN counted_as \cup {relative_path} |->
                    IF q = relative_path
                    THEN (IF comparison'.files_different > comparison.files_different
                          THEN "different" ELSE "identical")
                    ELSE counted_as[q]]
    /\ UNCHANGED <<source_files, target_files, comparison_mode, roots_exist, cpc,
                   max_workers, tasks>>
    /\ UNCHANGED <<evars, tvars, gvars, xvars>>

\* the final statistics, once every future was yielded
Finalize ==
    /\ cpc = "collect"
    /\ future_to_path = {}
    /\ comparison' = [comparison EXCEPT
            !.total_files_processed = Cardinality(all_paths),
            !.total_directories_processed =
                Cardinality({q \in DOMAIN source_files : source_files[q].kind = "dir"})
                + Cardinality({q \in DOMAIN target_files : target_files[q].kind = "dir"})]
    /\ cpc' = "done"
    /\ UNCHANGED <<source_files, target_files, comparison_mode, roots_exist,
                   future_to_path, completion_order, counted_as,
                   max_workers, tasks>>
    /\ UNCHANGED <<evars, tvars, gvars, xvars>>

\* the state when content_comparison is entered, for trees over the pools SP
\* and TP, a mode of MS and an engine built with one of the pool sizes WS
InitComparisonOf(SP, TP, MS, WS) ==
    /\ source_files \in Trees(SP)
    /\ target_files \in Trees(TP)
    /\ comparison_mode \in MS
    /\ max_workers \in WS
    /\ roots_exist \in {r \in BOOLEAN \X BOOLEAN :
                            /\ ~r[1] => DOMAIN source_files = {}
                            /\ ~r[2] => DOMAIN target_files = {}}
    /\ cpc = "start"
    /\ future_to_path = {}
    /\ comparison = NewComparisonResult
    /\ completion_order = <<>>
    /\ counted_as = <<>>
    /\ tasks = <<>>
    \* no extraction and no tracker takes part in this specification
    /\ archive = Archive(FALSE, FALSE, <<>>, <<>>, FALSE, FALSE, 0, <<>>, FALSE, "none")
    /\ pc = "done"
    /\ interrupted = FALSE
    /\ temp_dirs = <<>>
    /\ dirs_created = {}
    /\ format_detected = "unset"
    /\ extraction_path = "unset"
    /\ metadata = NewMetadata
    /\ idx = 0
    /\ hashed = 0
    /\ events = <<>>
    /\ links = <<>>
    /\ writes = {}
    /\ result = <<>>
    /\ outcomes = <<>>
    /\ observed = FALSE
    /\ trackers = <<>>
    /\ locks = <<>>
    /\ threads = <<>>
    /\ clock = 0
    /\ calls = 0
    \* no engine instance takes part in this specification
    /\ engines = <<>>
    /\ handler = "default"
    /\ disk = {}
    /\ workers = <<>>
    /\ created = <<>>
    /\ attempted = {}
    \* no further call, no tracker object and no monitor
    /\ earlier = <<>>
    /\ objects = <<>>
    /\ bubbled = <<>>
    /\ update_thread = 0
    /\ stop_event = FALSE
    /\ loops = <<>>
    /\ callers = <<>>
    /\ monitoring = FALSE
    /\ monitor_calls = 0

InitComparison == InitComparisonOf(SourcePool, TargetPool, Modes, {default_max_workers})

NextComparison ==
    \/ Validate
    \/ ReportMissingTarget
    \/ ReportMissingSource
    \/ Submit
    \/ Complete
    \/ Finalize

SpecComparison == InitComparison /\ [][NextComparison]_vars

\* ------------------------------------------------------------------------
\* The worker pool of content_comparison. SpecComparison takes the submission
\* loop in one step and the run of a task with the collection of its result
\* in another; SpecPool follows the same call with each executor.submit, each
\* start and each end of a task on a worker thread, and each future yielded
\* by as_completed as steps of their own, for engines built with a small
\* max_workers.
\* ------------------------------------------------------------------------
MaxWorkers == 2       \* the largest max_workers an engine of SpecPool is built with

PoolSource == {File("file", "hello", 644, 0, TRUE)}
PoolTarget == {File("file", "hello", 644, 0, TRUE), File("file", "hi", 600, 2, TRUE)}

\* a work item of the executor: pending in the queue, running on a worker
\* thread, finished (its future holds the return value), or yielded by
\* as_completed
Task(path, state) == [path |-> path, state |-> state]

TasksIn(state) == {i \in DOMAIN tasks : tasks[i].state = state}
SubmittedPaths == {tasks[i].path : i \in DOMAIN tasks}

\* Faulty variant of pool_has_room: a thread is started for every work item
pool_has_room_always == TRUE

\* ThreadPoolExecutor(max_workers=self.max_workers): a work item is taken
\* from the queue by one of at most max_workers threads, each running one
\* task at a time
pool_has_room == Cardinality(TasksIn("running")) < max_workers

\* `for relative_path in common_paths:`, one executor.submit, or the end of
\* the loop
SubmitTask ==
    /\ cpc = "submit"
    /\ LET todo == common_paths \ SubmittedPaths
       IN IF todo = {}
          THEN cpc' = "collect" /\ UNCHANGED <<tasks, future_to_path>>
          ELSE \E relative_path \in todo :
                /\ tasks' = Append(tasks, Task(relative_path, "pending"))
                /\ future_to_path' = future_to_path \cup {relative_path}
                /\ UNCHANGED cpc
    /\ UNCHANGED <<source_files, target_files, comparison_mode, roots_exist,
                   comparison, completion_order, counted_as, max_workers>>
    /\ UNCHANGED <<evars, tvars, gvars, xvars>>

\* a worker thread takes the oldest work item of the queue and calls
\* compare_file_pair
RunTask ==
    /\ TasksIn("pending") # {}
    /\ pool_has_room
    /\ LET i == CHOOSE k \in TasksIn("pending") : \A j \in TasksIn("pending") : k <= j
       IN tasks' = [tasks EXCEPT ![i].state = "running"]
    /\ UNCHANGED <<source_files, target_files, comparison_mode, roots_exist, cpc,
                   future_to_path, comparison, completion_order, counted_as, max_workers>>
    /\ UNCHANGED <<evars, tvars, gvars, xvars>>

\* compare_file_pair returns on its worker thread: the future is done
FinishTask ==
    /\ \E i \in TasksIn("running") :
            tasks' = [tasks EXCEPT ![i].state = "finished"]
    /\ UNCHANGED <<source_files, target_files, comparison_mode, roots_exist, cpc,
                   future_to_path, comparison, completion_order, counted_as, max_workers>>
    /\ UNCHANGED <<evars, tvars, gvars, xvars>>

\* as_completed yields a future that is done, and the collecting thread adds
\* its return value to the result
Collect ==
    /\ cpc = "collect"
    /\ \E i \in TasksIn("finished") :
        LET relative_path == tasks[i].path
            out == compare_file_pair(relative_path, source_files[relative_path],
                                     target_files[relative_path], comparison_mode)
        IN /\ comparison' = aggregate(comparison, out)
           /\ tasks' = [tasks EXCEPT ![i].state = "yielded"]
           /\ future_to_path' = future_to_path \ {relative_path}
           /\ completion_order' = Append(completion_order, relative_path)
           /\ counted_as' = [q \in DOMAIN counted_as \cup {relative_path} |->
                    IF q = relative_path
                    THEN (IF comparison'.files_different > comparison.files_different
                          THEN "different" ELSE "identical")
                    ELSE counted_as[q]]
    /\ UNCHANGED <<source_files, target_files, comparison_mode, roots_exist, cpc,
                   max_workers>>
    /\ UNCHANGED <<evars, tvars, gvars, xvars>>

InitPool == InitComparisonOf(PoolSource, PoolTarget, {"full"}, 1..MaxWorkers)

NextPool ==
    \/ Validate
    \/ ReportMissingTarget
    \/ ReportMissingSource
    \/ SubmitTask
    \/ RunTask
    \/ FinishTask
    \/ Collect
    \/ Finalize

SpecPool == InitPool /\ [][NextPool]_vars

\* ------------------------------------------------------------------------
\* Claims about the comparison engine (checked under SpecComparison)
\* ------------------------------------------------------------------------
\* content_comparison has returned, and no root was missing
Compared == cpc = "done" /\ roots_exist = <<TRUE, TRUE>>

OnlyInSource == DOMAIN source_files \ DOMAIN target_files
OnlyInTarget == DOMAIN target_files \ DOMAIN source_files
InBoth == DOMAIN source_files \cap DOMAIN target_files

\* what the worker task of a common path returns
TaskOf(q) == compare_file_pair(q, source_files[q], target_files[q], comparison_mode)

\* the task of a common path raises while it reads a file
PairRaises(q) ==
    LET wanted == comparison_mode \in {"full", "checksum_only"}
    IN \/ source_files[q].kind = "file" /\ ~source_files[q].readable /\ wanted
       \/ target_files[q].kind = "file" /\ ~target_files[q].readable /\ wanted

\* the differences recorded for a relative path
DiffsFor(q) == {i \in DOMAIN comparison.differences : comparison.differences[i].rel = q}
TypesFor(q) == {comparison.differences[i].difference_type : i \in DOMAIN(comparison.differences) \cap DiffsFor(q)}

Occurrences(seq, x) == Cardinality({i \in DOMAIN seq : seq[i] = x})
SameMultiset(s1, s2) ==
    /\ Len(s1) = Len(s2)
    /\ \A i \in DOMAIN s1 : Occurrences(s1, s1[i]) = Occurrences(s2, s1[i])

\* the differences of the two trees, listed path by path
RECURSIVE DifferencesFrom(_)
DifferencesFrom(i) ==
    IF i > MaxPaths THEN <<>>
    ELSE LET q == PathNames[i]
         IN (IF q \in OnlyInSource THEN <<FileDifference(<<q>>, q, "missing_target")>>
             ELSE IF q \in OnlyInTarget THEN <<FileDifference(<<q>>, q, "missing_source")>>
             ELSE IF q \in InBoth THEN TaskOf(q).differences
             ELSE <<>>)
            \o DifferencesFrom(i + 1)

SourceSize(q) == st_size(source_files[q])

RECURSIVE SumSourceSizes(_)
SumSourceSizes(S) ==
    IF S = {} THEN 0
    ELSE LET q == CHOOSE x \in S : TRUE IN SourceSize(q) + SumSourceSizes(S \ {q})

\* the counters and the differences are those the two trees and the mode
\* determine, whatever the order of completion was
OrderFree ==
    /\ comparison.files_identical = Cardinality({q \in InBoth : TaskOf(q).differences = <<>>})
    /\ comparison.files_different = Cardinality({q \in InBoth : TaskOf(q).differences # <<>>})
    /\ comparison.files_missing_source = Cardinality(OnlyInTarget)
    /\ comparison.files_missing_target = Cardinality(OnlyInSource)
    /\ comparison.total_files_processed = Cardinality(all_paths)
    /\ SameMultiset(comparison.differences, DifferencesFrom(1))

\* C14, as stated: every order of completion yields the same counters and the
\* same multiset of differences, and total_bytes_processed is the sum of the
\* source sizes of the common pairs.
C14_AsStated ==
    Compared => /\ OrderFree
                /\ comparison.total_bytes_processed = SumSourceSizes(InBoth)

\* C14, amended: every order of completion yields the same counters and the
\* same multiset of differences, and total_bytes_processed is the sum of the
\* source sizes of the common pairs whose task did not raise.
C14_OrderIndependent ==
    Compared => /\ OrderFree
                /\ comparison.total_bytes_processed
                     = SumSourceSizes({q \in InBoth : ~PairRaises(q)})

\* C14 witness: two common pairs, the task of "b" yielded before that of "a";
\* the task of "a" raised, that of "b" found differences and counted its bytes
C14_Witness ==
    /\ Compared
    /\ completion_order = <<"b", "a">>
    /\ PairRaises("a")
    /\ ~PairRaises("b")
    /\ TaskOf("b").differences # <<>>
    /\ comparison.total_bytes_processed = SourceSize("b")

AllReadable == \A q \in DOMAIN source_files : source_files[q].readable

RoundTrip ==
    /\ comparison.differences = <<>>
    /\ comparison.files_different = 0
    /\ comparison.files_missing_source = 0
    /\ comparison.files_missing_target = 0
    /\ comparison.files_identical = comparison.total_files_processed
    /\ success_rate(comparison)[1] = 100 * success_rate(comparison)[2]
    /\ success_rate(comparison)[2] > 0

\* C15, as stated: comparing any tree against itself in full mode yields no
\* difference, no different and no missing file, files_identical =
\* total_files_processed and success_rate = 100.
C15_AsStated ==
    (Compared /\ comparison_mode = "full" /\ source_files = target_files) => RoundTrip

\* C15, amended: comparing a tree whose files can all be read against itself
\* in full mode yields no difference, no different and no missing file,
\* files_identical = total_files_processed and success_rate = 100.
C15_RoundTrip ==
    (Compared /\ comparison_mode = "full" /\ source_files = target_files /\ AllReadable)
        => RoundTrip

\* C15 witness: a tree with a regular file and a directory was compared
\* against itself in full mode
C15_Witness ==
    /\ Compared
    /\ comparison_mode = "full"
    /\ source_files = target_files
    /\ AllReadable
    /\ {source_files[q].kind : q \in DOMAIN source_files} = {"file", "dir"}
    /\ comparison.files_identical = 2

\* the paths given to the worker pool so far
Dispatched == future_to_path \cup {completion_order[i] : i \in DOMAIN completion_order}

\* C16: once the two loops over the missing paths are done, every path that is
\* only in the source tree has exactly one difference, of type missing_target,
\* and files_missing_target counts these paths; every path that is only in the
\* target tree has exactly one difference, of type missing_source, and
\* files_missing_source counts these paths; none of them is given to the
\* worker pool.
C16_MissingPaths ==
    (roots_exist = <<TRUE, TRUE>> /\ cpc \in {"submit", "collect", "done"})
        => /\ \A q \in OnlyInSource :
                /\ Cardinality(DiffsFor(q)) = 1
                /\ TypesFor(q) = {"missing_target"}
           /\ \A q \in OnlyInTarget :
                /\ Cardinality(DiffsFor(q)) = 1
                /\ TypesFor(q) = {"missing_source"}
           /\ comparison.files_missing_target = Cardinality(OnlyInSource)
           /\ comparison.files_missing_source = Cardinality(OnlyInTarget)
           /\ Dispatched \cap (OnlyInSource \cup OnlyInTarget) = {}

\* C16 witness: "a" is only in the source tree and "b" only in the target
\* tree, and the comparison has returned
C16_Witness ==
    /\ Compared
    /\ OnlyInSource = {"a"}
    /\ OnlyInTarget = {"b"}
    /\ Len(comparison.differences) = 2
    /\ comparison.total_files_processed = 2

\* a common pair of readable regular files that differ in content only
ContentOnly(q) ==
    LET sf == source_files[q]
        tf == target_files[q]
    IN /\ sf.kind = "file" /\ tf.kind = "file"
       /\ sf.readable /\ tf.readable
       /\ st_size(sf) = st_size(tf)
       /\ sf.perm = tf.perm
       /\ Abs(sf.mtime - tf.mtime) <= 1
       /\ sf.content # tf.content

\* C17: in full mode, a common pair of regular files of equal size, equal
\* permission bits and modification times within the tolerance, whose content
\* differs, has exactly one difference, of type content_mismatch, and is
\* counted once, in files_different.
C17_ContentMismatch ==
    (Compared /\ comparison_mode = "full")
        => \A q \in InBoth :
                ContentOnly(q)
                    => /\ Cardinality(DiffsFor(q)) = 1
                       /\ TypesFor(q) = {"content_mismatch"}
                       /\ counted_as[q] = "different"
                       /\ comparison.files_different
                            = Cardinality({x \in InBoth : counted_as[x] = "different"})
                       /\ comparison.files_identical
                            = Cardinality({x \in InBoth : counted_as[x] = "identical"})

\* C17 witness: the trees hold the one path "a", "hello" in the source and
\* "world" in the target: one difference, files_different = 1,
\* files_identical = 0
C17_Witness ==
    /\ Compared
    /\ comparison_mode = "full"
    /\ DOMAIN source_files = {"a"} /\ DOMAIN target_files = {"a"}
    /\ ContentOnly("a")
    /\ source_files["a"].mtime # target_files["a"].mtime
    /\ Len(comparison.differences) = 1
    /\ comparison.files_different = 1
    /\ comparison.files_identical = 0

\* C18: in the result returned, success_rate is files_identical /
\* total_files_processed * 100 when total_files_processed > 0 and 100 when it
\* is 0, never a division by zero; two empty trees give total_files_processed
\* = 0 and success_rate = 100; 0 <= success_rate <= 100.
C18_SuccessRate ==
    cpc = "done"
        => LET rate == success_rate(comparison)
               total == comparison.total_files_processed
           IN /\ rate[2] > 0
              /\ total > 0 => rate[1] * total = comparison.files_identical * 100 * rate[2]
              /\ total = 0 => rate[1] = 100 * rate[2]
              /\ (roots_exist = <<TRUE, TRUE>> /\ all_paths = {}) => total = 0
              /\ 0 <= rate[1] /\ rate[1] <= 100 * rate[2]

\* C18 witness: two existing, empty trees were compared
C18_Witness ==
    /\ Compared
    /\ all_paths = {}
    /\ comparison.total_files_processed = 0
    /\ comparison.errors = <<>>

\* C19: at completion every common path was counted in exactly one of
\* files_identical (no difference) and files_different (one difference or
\* more, counted once), so files_identical + files_different is the number of
\* common paths and total_files_processed is the sum of the four counters.
C19_CounterConservation ==
    Compared
        => /\ DOMAIN counted_as = InBoth
           /\ \A q \in InBoth :
                counted_as[q] = IF DiffsFor(q) = {} THEN "identical" ELSE "different"
           /\ comparison.files_identical
                = Cardinality({q \in InBoth : counted_as[q] = "identical"})
           /\ comparison.files_different
                = Cardinality({q \in InBoth : counted_as[q] = "different"})
           /\ comparison.files_identical + comparison.files_different = Cardinality(InBoth)
           /\ comparison.total_files_processed
                = comparison.files_identical + comparison.files_different
                  + comparison.files_missing_source + comparison.files_missing_target

\* C19 witness: one pair has four difference records and is counted once, the
\* other pair is identical
C19_Witness ==
    /\ Compared
    /\ \E q \in InBoth : Cardinality(DiffsFor(q)) = 4
    /\ comparison.files_different = 1
    /\ comparison.files_identical = 1

\* C20: a task that raises for one pair does not abort the comparison: the
\* failure is an entry of result.errors and one content_mismatch difference
\* for the path, the pair is counted as different, and every other pair is
\* compared.
C20_PairFailureRecorded ==
    Compared
        => \A q \in InBoth :
                PairRaises(q)
                    => /\ \E i \in DOMAIN comparison.errors :
                                comparison.errors[i] = <<"Error processing", q>>
                       /\ Cardinality(DiffsFor(q)) = 1
                       /\ TypesFor(q) = {"content_mismatch"}
                       /\ counted_as[q] = "different"
                       /\ DOMAIN counted_as = InBoth

\* ------------------------------------------------------------------------
\* Claims on the extraction loop, continued (under SpecExtraction)
\* ------------------------------------------------------------------------
\* The members the loop has written so far
MembersWritten == Count(outcomes, Written)

\* C23: the interruption flag is checked before each member and after each
\* hashed chunk: from a state in which the flag is set, a step of the
\* extraction handles no further member, and hashes at most the one chunk
\* whose check then raises; once a check has seen the flag, the loop and the
\* checksum have stopped and no later member is ever handled or written.
C23_Step ==
    /\ interrupted
          => /\ outcomes' = outcomes
             /\ idx' = idx
             /\ hashed' \in {hashed, hashed + 1}
             /\ (hashed' = hashed + 1) => (observed' /\ pc' = "done")
    /\ observed
          => /\ hashed' = hashed
             /\ observed'
             /\ pc' \notin {"hash", "members"}

C23_BoundedCancellation ==
    /\ [](observed => (interrupted /\ pc \in {"done", "fallback", "finish"}))
    /\ [][C23_Step]_vars

\* C23 witness: the flag was set after the first of two members; the check
\* before the second member saw it, and the second member was not written.
C23_Witness ==
    /\ observed
    /\ pc = "done"
    /\ Len(archive.members) = 2
    /\ idx = 1
    /\ MembersWritten = 1
    /\ hashed = archive.chunks

\* The events of the member loop, and the positions (from 1) of the members
\* the loop wrote
MemberEvents ==
    LET IsMemberEvent(e) == e[3] = "Extracted"
    IN SelectSeq(events, IsMemberEvent)

WrittenPositions ==
    LET IsWritten(j) == outcomes[j] \in Written
    IN SelectSeq([j \in 1..Len(outcomes) |-> j], IsWritten)

\* C24 as stated: when the loop has run over the n members of an archive
\* (a callback being given), it has emitted exactly n events, the i-th
\* (from 0) carrying (i + 1) / n * 100.
C24_AsStated ==
    (LoopCompleted /\ archive.cb # "none")
        => MemberEvents = [j \in 1..Len(archive.members) |->
                              <<j * 100, Len(archive.members), "Extracted">>]

\* C24, amended: with a callback given, the loop emits one event for each
\* member it extracted and none for a member it skipped or failed to write,
\* in archive order; the event of the member at position i (from 0) of an
\* archive of n members carries (i + 1) / n * 100, and is emitted after the
\* member's counters were updated: while the loop runs there are as many
\* events as extracted_files. Without a callback no event is emitted.
C24_EventPerExtractedMember ==
    /\ archive.cb = "none" => events = <<>>
    /\ archive.cb # "none"
          => /\ MemberEvents = [k \in 1..Len(WrittenPositions) |->
                                   <<WrittenPositions[k] * 100, Len(archive.members),
                                     "Extracted">>]
             /\ pc = "members" => Len(MemberEvents) = metadata.extracted_files

\* C24 witness: of two members the first was skipped and the second
\* extracted: the loop emitted the one event (100%).
C24_Witness ==
    /\ LoopCompleted
    /\ archive.cb # "none"
    /\ outcomes \in {<<"unsafe", "extracted">>, <<"oversize", "extracted">>}
    /\ MemberEvents = <<<<200, 2, "Extracted">>>>

\* The archive file was copied into the destination by the qdrant fallback
Copied == Append(DestRoot, "b.snapshot") \in writes

CopyEvents ==
    LET IsCopyEvent(e) == e[3] = "Copied"
    IN SelectSeq(events, IsCopyEvent)

\* C25: for an archive detected as a qdrant snapshot the archive file is
\* copied into the destination if and only if tar parsing fails: a snapshot
\* that parses as tar is never copied; after the copy the call returns
\* success with total_files = extracted_files = 1 and total_size =
\* extracted_size = the size of the archive, and exactly one event (100%)
\* was emitted for the copy.
C25_QdrantFallback ==
    /\ Copied => (format_detected = "qdrant" /\ ~archive.parsable)
    /\ (pc \in {"finish", "done"} /\ format_detected = "qdrant" /\ ~archive.parsable
           /\ archive.readable /\ ~observed)
          => Copied
    /\ (Returned /\ Copied)
          => LET r == result[1]
             IN /\ r.success
                /\ r.metadata.total_files = 1 /\ r.metadata.extracted_files = 1
                /\ r.file_count = 1
                /\ r.metadata.total_size = archive.chunks
                /\ r.metadata.extracted_size = archive.chunks
                /\ r.total_size = archive.chunks
                /\ archive.cb # "none" => CopyEvents = <<<<100, 1, "Copied">>>>

\* ------------------------------------------------------------------------
\* Engine instances: construction, temp directories, cleanup, signals
\* (extraction_engine.py). Two engines live in one process; the main thread
\* constructs them (signal.signal raises in any other thread), every thread
\* may run test_extraction - inside or outside a `with` block - or cleanup
\* on a constructed engine, and the operating system delivers SIGINT or
\* SIGTERM to whatever handler is installed.
\* ------------------------------------------------------------------------
Engines == {"A", "B"}
EngineThreads == {"main", "worker"}
MaxDirs == 2          \* temp directories made by mkdtemp, over all engines

\* ExtractionEngine.__init__: the fields of a fresh instance
NewEngine == [alive |-> TRUE, temp_dirs |-> <<>>, interrupted |-> FALSE, lock |-> NoThread]
NoEngine == [alive |-> FALSE, temp_dirs |-> <<>>, interrupted |-> FALSE, lock |-> NoThread]

IdleWorker ==
    [pc |-> "idle", eng |-> "none", dir |-> 0, i |-> 0, ctx |-> FALSE, outcome |-> "none"]

\* Faulty variant of lock_free: the list is touched without the mutex
lock_free_always(E) == TRUE

\* `with self._lock` can be entered
lock_free(E) == engines[E].lock = NoThread

\* ExtractionEngine.__init__, in the main thread: the new instance's
\* _signal_handler is installed for SIGINT and SIGTERM
Construct(E) ==
    /\ workers["main"].pc = "idle"
    /\ ~engines[E].alive
    /\ engines' = [engines EXCEPT ![E] = NewEngine]
    /\ handler' = E
    /\ UNCHANGED <<disk, workers, created, attempted>>
    /\ UNCHANGED <<evars, tvars, cvars, xvars>>

\* A thread calls test_extraction(path) with no extraction_dir, which calls
\* _create_secure_temp_dir: tempfile.mkdtemp and chmod(S_IRWXU). ctx tells
\* whether the call is the body of a `with` block on the engine.
Mkdtemp(t, E, ctx) ==
    /\ workers[t].pc = "idle"
    /\ engines[E].alive
    /\ Cardinality(DOMAIN created) < MaxDirs
    /\ LET d == Cardinality(DOMAIN created) + 1
       IN /\ disk' = disk \cup {d}
          /\ created' = [k \in DOMAIN created \cup {d} |->
                            IF k = d THEN [by |-> E, cleared |-> FALSE]
                            ELSE created[k]]
          /\ workers' = [workers EXCEPT ![t] = [IdleWorker EXCEPT !.pc = "track", !.eng = E,
                                                                  !.dir = d, !.ctx = ctx]]
    /\ UNCHANGED <<engines, handler, attempted>>
    /\ UNCHANGED <<evars, tvars, cvars, xvars>>

\* _create_secure_temp_dir: with self._lock: self.temp_dirs.append(temp_dir)
TrackDir(t, E) ==
    /\ workers[t].pc = "track" /\ workers[t].eng = E
    /\ lock_free(E)
    /\ engines' = [engines EXCEPT ![E].temp_dirs = Append(@, workers[t].dir)]
    /\ workers' = [workers EXCEPT ![t].pc = "extract"]
    /\ UNCHANGED <<handler, disk, created, attempted>>
    /\ UNCHANGED <<evars, tvars, cvars, xvars>>

\* The rest of test_extraction: it succeeds, fails, or stops at a check of
\* the interruption flag; the tracked list is not touched. On the exit of a
\* `with` block cleanup follows, whatever the body did (the outcome is kept
\* until then).
Extract(t, E) ==
    /\ workers[t].pc = "extract" /\ workers[t].eng = E
    /\ \E o \in IF engines[E].interrupted THEN {"interrupted"} ELSE {"ok", "failed"} :
          workers' = [workers EXCEPT ![t] = IF @.ctx
                                            THEN [@ EXCEPT !.pc = "cleanup", !.outcome = o]
                                            ELSE IdleWorker]
    /\ UNCHANGED <<engines, handler, disk, created, attempted>>
    /\ UNCHANGED <<evars, tvars, cvars, xvars>>

\* cleanup(), called by an idle thread or by the exit of a `with` block:
\* with self._lock
CleanupAcquire(t, E) ==
    /\ \/ workers[t].pc = "idle"
       \/ workers[t].pc = "cleanup" /\ workers[t].eng = E
    /\ engines[E].alive
    /\ lock_free(E)
    /\ engines' = [engines EXCEPT ![E].lock = t]
    /\ workers' = [workers EXCEPT ![t] = [IdleWorker EXCEPT !.pc = "rmtree", !.eng = E,
                                                            !.i = 1]]
    /\ UNCHANGED <<handler, disk, created, attempted>>
    /\ UNCHANGED <<evars, tvars, cvars, xvars>>

\* cleanup: one iteration of the loop: shutil.rmtree of a directory that
\* exists removes it or raises (the exception is logged)
Rmtree(t, E) ==
    /\ workers[t].pc = "rmtree" /\ workers[t].eng = E
    /\ workers[t].i <= Len(engines[E].temp_dirs)
    /\ LET d == engines[E].temp_dirs[workers[t].i]
       IN IF d \in disk
          THEN /\ attempted' = attempted \cup {d}
               /\ \/ disk' = disk \ {d}
                  \/ disk' = disk
          ELSE UNCHANGED <<disk, attempted>>
    /\ workers' = [workers EXCEPT ![t].i = @ + 1]
    /\ UNCHANGED <<engines, handler, created>>
    /\ UNCHANGED <<evars, tvars, cvars, xvars>>

\* cleanup: self.temp_dirs.clear() and the release of the lock
CleanupClear(t, E) ==
    /\ workers[t].pc = "rmtree" /\ workers[t].eng = E
    /\ workers[t].i > Len(engines[E].temp_dirs)
    /\ created' = [d \in DOMAIN created |->
                      IF d \in Range(engines[E].temp_dirs)
                      THEN [created[d] EXCEPT !.cleared = TRUE] ELSE created[d]]
    /\ engines' = [engines EXCEPT ![E].temp_dirs = <<>>, ![E].lock = NoThread]
    /\ workers' = [workers EXCEPT ![t] = IdleWorker]
    /\ UNCHANGED <<handler, disk, attempted>>
    /\ UNCHANGED <<evars, tvars, cvars, xvars>>

\* SIGINT or SIGTERM reaches the process: the installed handler, the
\* _signal_handler of engine E, sets that engine's flag
Signal(E) ==
    /\ handler = E
    /\ ~engines[E].interrupted
    /\ engines' = [engines EXCEPT ![E].interrupted = TRUE]
    /\ UNCHANGED <<handler, disk, workers, created, attempted>>
    /\ UNCHANGED <<evars, tvars, cvars, xvars>>

InitEngines ==
    /\ engines = [E \in Engines |-> NoEngine]
    /\ handler = "default"
    /\ disk = {}
    /\ workers = [t \in EngineThreads |-> IdleWorker]
    /\ created = <<>>
    /\ attempted = {}
    \* no further call, no tracker object and no monitor
    /\ earlier = <<>>
    /\ objects = <<>>
    /\ bubbled = <<>>
    /\ update_thread = 0
    /\ stop_event = FALSE
    /\ loops = <<>>
    /\ callers = <<>>
    /\ monitoring = FALSE
    /\ monitor_calls = 0
    \* no extraction call takes part in this specification
    /\ archive = Archive(FALSE, FALSE, <<>>, <<>>, FALSE, FALSE, 0, <<>>, FALSE, "none")
    /\ pc = "done"
    /\ interrupted = FALSE
    /\ temp_dirs = <<>>
    /\ dirs_created = {}
    /\ format_detected = "unset"
    /\ extraction_path = "unset"
    /\ metadata = NewMetadata
    /\ idx = 0
    /\ hashed = 0
    /\ events = <<>>
    /\ links = <<>>
    /\ writes = {}
    /\ result = <<>>
    /\ outcomes = <<>>
    /\ observed = FALSE
    \* no tracker takes part in this specification
    /\ trackers = <<>>
    /\ locks = <<>>
    /\ threads = <<>>
    /\ clock = 0
    /\ calls = 0
    \* no comparison takes part in this specification
    /\ source_files = <<>>
    /\ target_files = <<>>
    /\ comparison_mode = "full"
    /\ roots_exist = <<FALSE, FALSE>>
    /\ cpc = "done"
    /\ future_to_path = {}
    /\ comparison = <<>>
    /\ completion_order = <<>>
    /\ counted_as = <<>>
    /\ max_workers = default_max_workers
    /\ tasks = <<>>

NextEngines ==
    \/ \E E \in Engines : Construct(E)
    \/ \E t \in EngineThreads, E \in Engines, ctx \in BOOLEAN : Mkdtemp(t, E, ctx)
    \/ \E t \in EngineThreads, E \in Engines : TrackDir(t, E)
    \/ \E t \in EngineThreads, E \in Engines : Extract(t, E)
    \/ \E t \in EngineThreads, E \in Engines : CleanupAcquire(t, E)
    \/ \E t \in EngineThreads, E \in Engines : Rmtree(t, E)
    \/ \E t \in EngineThreads, E \in Engines : CleanupClear(t, E)
    \/ \E E \in Engines : Signal(E)

SpecEngines == InitEngines /\ [][NextEngines]_vars

\* ------------------------------------------------------------------------
\* Claims on the engine instances (under SpecEngines)
\* ------------------------------------------------------------------------
Tracked(d) == \E E \in Engines : d \in Range(engines[E].temp_dirs)
BeingTracked(d) == \E t \in EngineThreads : workers[t].pc = "track" /\ workers[t].dir = d
Quiescent == \A t \in EngineThreads : workers[t].pc = "idle"

\* C21, the tracking of a directory: from the return of
\* _create_secure_temp_dir until a cleanup of its engine clears the list, a
\* directory is in the list of the engine that made it, once, and in no
\* other list - whatever the outcome of the extraction that used it.
C21_TrackedUntilCleanup ==
    \A d \in DOMAIN created :
        /\ (~BeingTracked(d) /\ ~created[d].cleared)
              => Count(engines[created[d].by].temp_dirs, {d}) = 1
        /\ \A E \in Engines \ {created[d].by} : d \notin Range(engines[E].temp_dirs)
        /\ created[d].cleared => ~Tracked(d)

\* C21, cleanup: when cleanup returns, the removal of every directory of the
\* list that existed was attempted and the list is empty; a cleanup that
\* finds the list empty (a second cleanup) changes nothing.
C21_CleanupStep ==
    \A t \in EngineThreads, E \in Engines :
        CleanupClear(t, E)
            => /\ engines'[E].temp_dirs = <<>>
               /\ \A d \in Range(engines[E].temp_dirs) : d \in disk => d \in attempted
               /\ disk' = disk
               /\ (engines[E].temp_dirs = <<>>)
                     => (engines' = [engines EXCEPT ![E].lock = NoThread]
                         /\ created' = created /\ attempted' = attempted)

\* C21 as stated: under any interleaving of temp-dir creation and cleanup,
\* no created directory is left both unremoved and untracked.
C21_AsStated ==
    Quiescent => \A d \in DOMAIN created : d \notin disk \/ Tracked(d)

\* C21, amended: the tracking and cleanup properties above, and under any
\* interleaving of temp-dir creation and cleanup no created directory is left
\* both unremoved and untracked unless a cleanup attempted its removal and
\* the removal failed.
C21_NoLeak ==
    \A d \in DOMAIN created :
        d \notin disk \/ Tracked(d) \/ BeingTracked(d) \/ d \in attempted

C21_TempDirLifecycle ==
    /\ []C21_TrackedUntilCleanup
    /\ []C21_NoLeak
    /\ [][C21_CleanupStep]_vars

\* C21 witness: the cleanup that removed directory 1 ran between the mkdtemp
\* and the append of the concurrent creation of directory 2; directory 2 is
\* tracked afterwards, and still is when the extraction using it, the body
\* of a `with` block, was interrupted and the block's cleanup is about to run.
C21_Witness ==
    /\ DOMAIN created = {1, 2}
    /\ created[1].by = created[2].by
    /\ created[1].cleared /\ 1 \notin disk
    /\ ~created[2].cleared
    /\ engines[created[2].by].temp_dirs = <<2>>
    /\ 2 \in disk
    /\ \E t \in EngineThreads :
          /\ workers[t].pc = "cleanup" /\ workers[t].dir = 2
          /\ workers[t].outcome = "interrupted"

\* An operation on engine F: its construction, a call on it or a step of
\* such a call, or a signal that its handler receives
OperationOn(F) ==
    \/ Construct(F)
    \/ Signal(F)
    \/ \E t \in EngineThreads :
          \/ \E ctx \in BOOLEAN : Mkdtemp(t, F, ctx)
          \/ TrackDir(t, F) \/ Extract(t, F)
          \/ CleanupAcquire(t, F) \/ Rmtree(t, F) \/ CleanupClear(t, F)

\* C22: with two engines alive, no operation on one of them changes the
\* other's tracked list, the other's interruption flag, or the other's
\* ability to be interrupted by a termination signal (its handler being the
\* one installed); constructing an engine changes no state outside the
\* instance.
C22_Step ==
    \A E \in Engines : \A F \in Engines \ {E} :
        /\ (engines[E].alive /\ OperationOn(F))
              => /\ engines'[E] = engines[E]
                 /\ (handler = E) => (handler' = E)
        /\ Construct(F) => (handler' = handler /\ disk' = disk)

C22_EngineIsolation == [][C22_Step]_vars

\* ------------------------------------------------------------------------
\* Claims on the throughput samples and the reports (under SpecTrackerLong
\* and SpecTrackerChain)
\* ------------------------------------------------------------------------
\* the last n elements of a sequence
KeepLast(s, n) == SubSeq(s, Max(1, Len(s) - n + 1), Len(s))

\* C26: the sample buffer of a tracker never holds more than 10 samples; a
\* step that adds a sample leaves the 10 most recent ones in insertion order
\* (the oldest is evicted first); the start() that starts the tracker resets
\* the buffer to the single sample (start time, 0).
SampleAdded(X) ==
    trackers'[X].throughput_samples
        = KeepLast(Append(trackers[X].throughput_samples,
                          <<clock, trackers'[X].current_item>>), 10)

C26_Step ==
    /\ \A X \in DOMAIN trackers :
          trackers'[X].throughput_samples # trackers[X].throughput_samples
              => IF trackers[X].start_time = NoTime
                 THEN /\ trackers'[X].start_time = clock
                      /\ trackers'[X].throughput_samples = <<<<clock, 0>>>>
                 ELSE SampleAdded(X)
    /\ \A t \in DOMAIN threads :
          /\ (UpdateWrite(t) \/ SetCurrent(t)) => SampleAdded(Next1(t).tr)
          /\ (Start(t) /\ trackers[Next1(t).tr].start_time = NoTime)
                => trackers'[Next1(t).tr].throughput_samples = <<<<clock, 0>>>>

C26_SampleBufferBound ==
    /\ [](\A X \in DOMAIN trackers : Len(trackers[X].throughput_samples) <= 10)
    /\ [][C26_Step]_vars

\* C26 witness: after start() and eleven update() calls the buffer holds ten
\* samples, the start sample and the first update's sample evicted.
C26_Witness ==
    /\ ~Busy("t1")
    /\ trackers["A"].n_updates = 11
    /\ ~trackers["A"].touched
    /\ Len(trackers["A"].throughput_samples) = 10
    /\ trackers["A"].throughput_samples[1] = <<0, 2>>
    /\ Last(trackers["A"].throughput_samples) = <<1, 2>>

\* thread t's step is the return of get_report() of X
ReportBuilt(t, X) ==
    /\ Release(t)
    /\ Next1(t).msg = "report"
    /\ Next1(t).tr = X
    /\ X \in DOMAIN threads'[t].reports

\* equality of the fractions <<a, b>> and <<c, d>>
FracEq(p, q) == p[1] * q[2] = q[1] * p[2]

\* C27 as stated: the throughput of a report is (items_newest - items_oldest)
\* / (t_newest - t_oldest) and its ETA is (total - current) divided by that
\* rate, oldest and newest being the first and the last sample of the buffer.
C27_AsStatedStep ==
    \A t \in DOMAIN threads, X \in DOMAIN trackers :
        ReportBuilt(t, X)
            => LET r == threads'[t].reports[X]
                   samples == trackers[X].throughput_samples
                   oldest == samples[1]
                   newest == Last(samples)
               IN (Len(samples) >= 2 /\ newest[1] > oldest[1])
                     => /\ r.throughput # None
                        /\ FracEq(r.throughput, <<newest[2] - oldest[2], newest[1] - oldest[1]>>)
                        /\ (newest[2] > oldest[2])
                              => /\ r.eta # None
                                 /\ FracEq(r.eta, <<(r.total - r.current) * (newest[1] - oldest[1]),
                                                    newest[2] - oldest[2]>>)

C27_AsStated == [][C27_AsStatedStep]_vars

\* C27, amended: oldest and newest are the first and the last of the last
\* three samples of the buffer (of all of them when there are fewer). The
\* throughput of a report is (items_newest - items_oldest) / (t_newest -
\* t_oldest), and None when there are fewer than two samples or no time
\* passed between the two; the ETA is (total - current) divided by that rate,
\* and None when there is no throughput, when current is 0, or when the rate
\* is not positive.
C27_Step ==
    \A t \in DOMAIN threads, X \in DOMAIN trackers :
        ReportBuilt(t, X)
            => LET r == threads'[t].reports[X]
                   samples == trackers[X].throughput_samples
                   oldest == samples[Max(1, Len(samples) - 2)]
                   newest == Last(samples)
                   no_rate == Len(samples) < 2 \/ newest[1] <= oldest[1]
                   no_eta == no_rate \/ r.current = 0 \/ newest[2] <= oldest[2]
               IN /\ r.current = trackers[X].current_item
                  /\ r.total = total_items(X)
                  /\ (r.throughput = None) <=> no_rate
                  /\ ~no_rate
                        => FracEq(r.throughput, <<newest[2] - oldest[2], newest[1] - oldest[1]>>)
                  /\ (r.eta = None) <=> no_eta
                  /\ ~no_eta
                        => FracEq(r.eta, <<(r.total - r.current) * (newest[1] - oldest[1]),
                                           newest[2] - oldest[2]>>)

C27_TwoPointRate == [][C27_Step]_vars

\* C27 witness: a report built from four samples of which the last three give
\* one item per second, the whole buffer two.
C27_Witness ==
    /\ trackers["A"].throughput_samples = <<<<0, 0>>, <<0, 1>>, <<0, 2>>, <<1, 2>>>>
    /\ "A" \in DOMAIN threads["t1"].reports
    /\ threads["t1"].reports["A"].throughput = <<1, 1>>
    /\ threads["t1"].reports["A"].eta = <<0, 1>>

\* The notifications tracker X has emitted so far: one by the start() that
\* started it, one by the finish() that finished it, and, the clock taking
\* one tick, at most one by an update() or set_current() that passed the
\* rate limit (which moved last_update_time beyond start_time)
Notifications(X) ==
    LET tr == trackers[X]
    IN (IF tr.start_time # NoTime THEN 1 ELSE 0)
       + (IF tr.is_finished THEN 1 ELSE 0)
       + (IF tr.start_time # NoTime /\ tr.last_update_time > tr.start_time THEN 1 ELSE 0)

\* report r shows the present state of tracker X and, in its sub_operations,
\* of every tracker below it
RECURSIVE Shows(_, _)
Shows(r, X) ==
    /\ r.current = trackers[X].current_item
    /\ r.custom_message = trackers[X].custom_message
    /\ DOMAIN r.sub_operations = Range(sub_trackers(X))
    /\ \A Y \in DOMAIN r.sub_operations : Shows(r.sub_operations[Y], Y)

\* C28: the sub-trackers "A" (of "P") and "G" (of "A"), added without a
\* mode, are silent and never invoke a sink of their own; every notification
\* one of them emits reaches every ancestor: when the call is over, "P" has
\* rendered once for each notification of "A" and of "G"; and what the sink
\* of "P" renders is the report of "P" itself, whose sub_operations hold the
\* current report of "A", which holds the current report of "G".
C28_Rendered ==
    /\ \A X \in DOMAIN trackers \ {"P"} : mode(X) = "silent" /\ trackers[X].renders = 0
    /\ ~Busy("t1") => trackers["P"].renders = Notifications("A") + Notifications("G")

C28_SinkStep ==
    Sink("t1")
        => /\ Next1("t1").tr = "P"
           /\ "P" \in DOMAIN threads["t1"].reports
           /\ Shows(threads["t1"].reports["P"], "P")
           /\ trackers'["P"].renders = trackers["P"].renders + 1

C28_NotificationBubbling == []C28_Rendered /\ [][C28_SinkStep]_vars

\* C28 witness: finish() of "G", two levels below "P": the sink of "P" is
\* about to render the report of "P", in which the report of "A" holds the
\* report of "G", finished.
C28_Witness ==
    /\ Busy("t1")
    /\ Next1("t1").op = "sink"
    /\ trackers["G"].is_finished
    /\ ~trackers["A"].is_finished
    /\ threads["t1"].reports["P"].sub_operations["A"].sub_operations["G"].current = 2
    /\ threads["t1"].reports["P"].sub_operations["A"].sub_operations["G"].custom_message
          = "Complete"

\* ------------------------------------------------------------------------
\* Claims on the checks of a pair (under SpecComparison)
\* ------------------------------------------------------------------------
\* the types of the differences recorded for a relative path, in the order
\* they were recorded
RecordedTypes(q) ==
    LET IsFor(d) == d.rel = q
        ds == SelectSeq(comparison.differences, IsFor)
    IN [i \in DOMAIN ds |-> ds[i].difference_type]

CheckOrder == <<"size_mismatch", "content_mismatch", "permission_mismatch",
                "timestamp_mismatch">>
Rank(type) == CHOOSE k \in DOMAIN CheckOrder : CheckOrder[k] = type

\* compare_metadata was run on the pair q: its task did not raise, and the
\* mode is not quick or the sizes differ
MetadataCompared(q) ==
    /\ ~PairRaises(q)
    /\ comparison_mode # "quick" \/ st_size(source_files[q]) # st_size(target_files[q])

QuickCompared == Compared /\ comparison_mode = "quick"

RecordedKinds == {comparison.differences[i].difference_type : i \in DOMAIN comparison.differences}

\* C30 as stated: in quick mode no checksum is computed (a file that cannot
\* be read makes no task fail), a common pair of equal sizes is counted
\* identical with no difference, and the only differences a quick comparison
\* emits are missing_source, missing_target and size_mismatch.
C30_AsStated ==
    QuickCompared
        => /\ \A q \in InBoth :
                 st_size(source_files[q]) = st_size(target_files[q])
                    => (counted_as[q] = "identical" /\ RecordedTypes(q) = <<>>)
           /\ RecordedKinds \subseteq {"missing_source", "missing_target", "size_mismatch"}

\* C30, amended: in quick mode no checksum is computed, a common pair of equal
\* sizes is counted identical with no difference (whatever the contents and
\* the types), a pair of other sizes is counted different with the one
\* difference compare_metadata finds first - type_mismatch when the
\* file/directory types differ, size_mismatch otherwise - and the only
\* differences a quick comparison emits are missing_source, missing_target,
\* size_mismatch and type_mismatch.
C30_QuickMode ==
    QuickCompared
        => /\ \A q \in InBoth :
                 IF st_size(source_files[q]) = st_size(target_files[q])
                 THEN counted_as[q] = "identical" /\ RecordedTypes(q) = <<>>
                 ELSE /\ counted_as[q] = "different"
                      /\ RecordedTypes(q) = IF source_files[q].kind # target_files[q].kind
                                            THEN <<"type_mismatch">>
                                            ELSE <<"size_mismatch">>
           /\ RecordedKinds \subseteq {"missing_source", "missing_target", "size_mismatch",
                                       "type_mismatch"}
           /\ comparison.files_identical
                 = Cardinality({q \in InBoth :
                                   st_size(source_files[q]) = st_size(target_files[q])})

\* C30 witness: a quick comparison counted identical a file that cannot be
\* read and whose restored copy has other content of the same size, and
\* recorded a type mismatch for a directory restored as a file of another
\* size.
C30_Witness ==
    /\ QuickCompared
    /\ DOMAIN source_files = {"a", "b"} /\ DOMAIN target_files = {"a", "b"}
    /\ source_files["a"] = File("file", "hello", 644, 0, FALSE)
    /\ target_files["a"] = File("file", "world", 644, 1, TRUE)
    /\ counted_as["a"] = "identical"
    /\ source_files["b"].kind = "dir" /\ target_files["b"].kind = "file"
    /\ RecordedTypes("b") = <<"type_mismatch">>
    /\ comparison.files_identical = 1 /\ comparison.files_different = 1

\* ------------------------------------------------------------------------
\* Claims on the checks of full mode (under SpecComparison)
\* ------------------------------------------------------------------------
Has(q, type) == \E i \in DOMAIN RecordedTypes(q) : RecordedTypes(q)[i] = type

PermissionsDiffer(q) == source_files[q].perm # target_files[q].perm
TimesApart(q) == Abs(source_files[q].mtime - target_files[q].mtime)

\* C31 as stated: permission_mismatch and timestamp_mismatch are recorded in
\* full mode only; in full mode a timestamp_mismatch is recorded for a common
\* pair exactly when the modification times differ by more than 1 second,
\* and a permission_mismatch exactly when the permission bits differ.
C31_AsStated ==
    Compared
        => \A q \in InBoth :
              /\ Has(q, "permission_mismatch")
                    <=> (comparison_mode = "full" /\ PermissionsDiffer(q))
              /\ Has(q, "timestamp_mismatch")
                    <=> (comparison_mode = "full" /\ TimesApart(q) > 1)

\* the permission and timestamp checks of compare_metadata were reached for
\* the pair q: the mode is full, both files' metadata was read, and the
\* file/directory types are equal
FullChecksReached(q) ==
    /\ comparison_mode = "full"
    /\ ~PairRaises(q)
    /\ source_files[q].kind = target_files[q].kind

\* C31, amended: permission_mismatch and timestamp_mismatch are recorded in
\* full mode only, and only for a pair of equal file/directory types whose
\* metadata was read; for such a pair a timestamp_mismatch is recorded exactly
\* when the modification times differ by more than 1 second (exactly 1 second
\* is tolerated) and a permission_mismatch exactly when the permission bits
\* differ, each once.
C31_FullModeChecks ==
    Compared
        => \A q \in InBoth :
              /\ Has(q, "permission_mismatch")
                    <=> (FullChecksReached(q) /\ PermissionsDiffer(q))
              /\ Has(q, "timestamp_mismatch")
                    <=> (FullChecksReached(q) /\ TimesApart(q) > 1)
              /\ Count(RecordedTypes(q), {"permission_mismatch"}) <= 1
              /\ Count(RecordedTypes(q), {"timestamp_mismatch"}) <= 1

\* C31 witness: a full comparison tolerated a difference of exactly one
\* second for one pair and recorded the permission and the timestamp
\* mismatch of another, whose times are two seconds apart.
C31_Witness ==
    /\ Compared
    /\ comparison_mode = "full"
    /\ InBoth = {"a", "b"}
    /\ FullChecksReached("a") /\ TimesApart("a") = 1
    /\ ~Has("a", "timestamp_mismatch")
    /\ FullChecksReached("b") /\ TimesApart("b") = 2 /\ PermissionsDiffer("b")
    /\ Has("b", "timestamp_mismatch") /\ Has("b", "permission_mismatch")

\* ------------------------------------------------------------------------
\* Claims on the worker pool (under SpecPool)
\* ------------------------------------------------------------------------
\* the counters of the pairs aggregated so far
Aggregated == comparison.files_identical + comparison.files_different

\* C32: one task is submitted per common path (none twice, and once the
\* submission loop has ended none is lacking); never more than max_workers
\* tasks are running; the result holds the outcome of exactly the tasks
\* as_completed has yielded, each once, so that no step of a worker thread
\* writes it; and content_comparison returns only when every submitted task
\* has finished and was collected.
C32_BoundedPool ==
    /\ Cardinality(TasksIn("running")) <= max_workers
    /\ \A i, j \in DOMAIN tasks : tasks[i].path = tasks[j].path => i = j
    /\ SubmittedPaths \subseteq common_paths
    /\ (cpc = "collect" \/ Compared) => SubmittedPaths = common_paths
    /\ Aggregated = Cardinality(TasksIn("yielded"))
    /\ Len(completion_order) = Cardinality(TasksIn("yielded"))
    /\ Range(completion_order) = {tasks[i].path : i \in TasksIn("yielded")}
    /\ DOMAIN counted_as = Range(completion_order)
    /\ Compared => TasksIn("yielded") = DOMAIN tasks

\* C32 witness: an engine with one worker has compared two common paths:
\* along the way one task was running while the other waited in the queue.
C32_Witness ==
    /\ max_workers = 1
    /\ Len(tasks) = 2
    /\ TasksIn("running") # {} /\ TasksIn("pending") # {}

\* ------------------------------------------------------------------------
\* Claims on the range of the progress value (under SpecTrackerSeq)
\* ------------------------------------------------------------------------
\* C33: finish() is terminal for the progress value: once finish() has run
\* on a tracker, its current equals its total in every later state, whatever
\* update(), set_current(), start() and finish() calls follow, so that every
\* report built afterwards has current = total.
C33_FinishTerminal ==
    \A X \in DOMAIN trackers :
        trackers[X].is_finished => trackers[X].current_item = total_items(X)

\* C34: the range invariant: in every state reached by start(), update(d),
\* set_current(v) and finish() calls with any integers d and v, negative ones
\* included, the current of each tracker lies in [0, total].
C34_RangeInvariant ==
    \A X \in DOMAIN trackers :
        /\ 0 <= trackers[X].current_item
        /\ trackers[X].current_item <= total_items(X)

\* ------------------------------------------------------------------------
\* Claims on a comparison that did not run to completion (under
\* SpecComparison)
\* ------------------------------------------------------------------------
\* content_comparison has returned from its `except` clause: a root was
\* missing
Aborted == cpc = "done" /\ roots_exist # <<TRUE, TRUE>>

\* C40: a comparison that did not run to completion is never reported as a
\* clean match: its outcome is not has_differences = false together with a
\* success rate of 100, and the command-line wrapper does not exit with 0;
\* an exit code of 0 means that both trees were enumerated and every path
\* was found identical.
C40_FailureIsNotCleanMatch ==
    /\ Aborted
        => /\ ~(~has_differences(comparison) /\ success_rate(comparison) = <<100, 1>>)
           /\ exit_code(comparison) # 0
    /\ (cpc = "done" /\ exit_code(comparison) = 0)
        => /\ roots_exist = <<TRUE, TRUE>>
           /\ comparison.files_identical = Cardinality(all_paths)

\* ------------------------------------------------------------------------
\* Claims on the accounting and the progress of one call (under
\* SpecExtraction)
\* ------------------------------------------------------------------------
\* the member loop of a tar or zip archive ran through every member
TarOrZipLoopDone ==
    /\ format_detected \in TarFormats \cup {"zip"}
    /\ pc \in {"finish", "done"}
    /\ idx = Len(archive.members)
    /\ archive.parsable

\* C36: member accounting: when the member loop of a tar or zip extraction
\* has run to completion, for every archive and every progress callback (one
\* that raises included), each member was counted exactly once:
\* extracted_files + the warnings of the skipped members + the errors of the
\* failed members = total_files; and extracted_files <= total_files and
\* extracted_size <= total_size hold in every state.
C36_MemberAccounting ==
    /\ metadata.extracted_files <= metadata.total_files
    /\ metadata.extracted_size <= metadata.total_size
    /\ (TarOrZipLoopDone /\ pc = "finish")
        => metadata.extracted_files + Len(metadata.warnings) + Len(metadata.errors)
                = metadata.total_files

\* p <= q, for fractions <<numerator, denominator, ...>> of positive
\* denominators
FracLeq(p, q) == p[1] * q[2] <= q[1] * p[2]

\* C37: progress is monotonic: within one test_extraction call, for an
\* archive of any number of members, the percentages passed to the progress
\* callback never decrease from one call to the next, the first is 0.0 and,
\* when the call returns success, the last is 100.0.
C37_ProgressMonotonic ==
    /\ events # <<>> => (events[1][1] = 0)
    /\ \A k \in 1..(Len(events) - 1) : FracLeq(events[k], events[k + 1])
    /\ (Returned /\ result[1].success /\ events # <<>>)
            => (Last(events)[1] = 100 /\ Last(events)[2] = 1)

\* ------------------------------------------------------------------------
\* Claims on the calls that follow an interrupted one (under
\* SpecExtractionAgain)
\* ------------------------------------------------------------------------
\* the call before this one was aborted by the interruption flag
AfterAbortedCall == earlier # <<>> /\ Last(earlier).observed

\* an interruption was requested since this call was entered: the flag is
\* set and was not when the call before returned
NewRequest == earlier # <<>> /\ interrupted /\ ~Last(earlier).interrupted

\* C38: interruption affects only the extraction in progress: a
\* test_extraction call on a valid archive that follows, on the same engine,
\* a call aborted by the interruption flag is not interrupted unless a new
\* interruption is requested, and returns success = true.
C38_InterruptionIsPerCall ==
    (AfterAbortedCall /\ ~NewRequest)
        => /\ ~observed
           /\ Returned => result[1].success

\* ------------------------------------------------------------------------
\* Claims on the tree of trackers (under SpecTree)
\* ------------------------------------------------------------------------
\* the tracker X is registered in the sub-tracker map of the tracker p
Registered(X, p) ==
    \E s \in DOMAIN objects[p].sub_trackers : objects[p].sub_trackers[s] = X

\* C35: tracker-tree consistency: after any sequence of add_sub_operation
\* calls, two with the same sub_id on one parent included, a tracker has the
\* parent p if and only if it is registered in p's sub-tracker map, so each
\* sub-tracker is registered in exactly one tracker; hence every tracker
\* whose notification bubbles to a tracker also appears in the report that
\* tracker builds.
C35_TreeConsistency ==
    /\ \A X \in DOMAIN objects : \A p \in DOMAIN objects :
            (objects[X].parent_tracker = p) <=> Registered(X, p)
    /\ \A X \in DOMAIN objects :
            objects[X].parent_tracker # NoParent
                => Cardinality({p \in DOMAIN objects : Registered(X, p)}) = 1
    /\ bubbled # <<>>
            => \A k \in DOMAIN bubbled.reports : bubbled.from \in bubbled.reports[k].shows

\* ------------------------------------------------------------------------
\* Claims on the monitor of MultiProgressTracker (under SpecMonitor)
\* ------------------------------------------------------------------------
LiveLoops == {th \in DOMAIN loops : is_alive(th)}

\* C39: the monitor lifecycle: under any interleaving of start_monitoring
\* and stop_monitoring calls (concurrent starts, and a start right after a
\* stop whose join timed out, included) at most one monitoring loop is alive
\* at any time, and from the return of a start_monitoring call until the next
\* stop_monitoring exactly one loop is alive and goes on delivering: it is
\* not asked to stop.
C39_MonitorLifecycle ==
    /\ Cardinality(LiveLoops) <= 1
    /\ monitoring => (Cardinality(LiveLoops) = 1 /\ ~stop_event)

====
